---------------------------- MODULE Spec2Model ----------------------------
(***************************************************************************)
(* A model of the data-access engine of cerevi-server:                     *)
(*   - zarr3_reader (backend/app/util/zarr3_fs_reader.py): the sharded     *)
(*     array reader with its lock-protected index cache and metadata cache,*)
(*     called concurrently from worker threads;                            *)
(*   - coor_to_shard_chunk_index: the coordinate decomposition;            *)
(*   - ImarisHandler.get_tile and DataService._read_tile/get_tile_bytes:   *)
(*     the view-aware tile extraction and its raw encoding.                *)
(***************************************************************************)
EXTENDS Integers, Sequences, FiniteSets, TLC

VARIABLES
    \* ---- zarr3_reader: the object's fields
    maxItems,      \* self._max_cache_items
    cache,         \* self._index_array_cache: OrderedDict as a sequence of [key, val]
    metaCache,     \* self._meta_cache: res_lv -> ZarrMeta, NoMeta when not a key
    lock,          \* self._lock: the owning thread, or NoThread
    \* ---- one record of locals per worker thread
    pc, op, lvl, coor, meta, idx, res, vsh,
    \* ---- history: the keys of the cache ordered by their true last use
    useOrder,
    \* ---- history: per level, the successful runs of get_zarr_group_meta
    \* ---- since the last clear_cache
    parses,
    \* ---- the disk: the shard files written after the reader was constructed
    created,
    \* ---- the disk: the entries of zarr_path in the order iterdir() yields them
    dirs,
    \* ---- validate: per thread, the shards walked so far with their chunks
    swept,
    \* ---- history: per thread with an index table read from disk and not
    \* ---- yet handed to its caller, the threads whose clear_cache call
    \* ---- started after the read, and "returned" for those that returned
    mark,
    \* ---- coor_to_shard_chunk_index: the arguments and the results
    dq, dd,
    \* ---- tile extraction: a request and its response, and the request and
    \* ---- response for the adjacent tile
    tq, tr, tq2, tr2

readerVars == <<maxItems, cache, metaCache, lock, pc, op, lvl, coor, meta,
                idx, res, vsh, useOrder, parses, created, dirs, swept, mark>>
decompVars == <<dq, dd>>
tileVars == <<tq, tr, tq2, tr2>>

vars == <<readerVars, decompVars, tileVars>>

---------------------------------------------------------------------------
(* Bounds of the model *)

\* max_cache_items is drawn from 0..MaxCap
MaxCap == 2

\* the coordinates decomposed have components in 0..MaxCoord, the shard and
\* chunk sizes components in 1..MaxSz
MaxCoord == 4
MaxSz == 3

\* the catalog's tile size (512 for the 2D views, 64 for 3d in the real catalog)
TileSize == 2

---------------------------------------------------------------------------
(* Generic helpers on tuples *)

Range(s) == {s[i] : i \in DOMAIN s}

RECURSIVE Prod(_)
Prod(s) == IF s = <<>> THEN 1 ELSE Head(s) * Prod(Tail(s))

\* all index tuples of np.ndindex(shape), in row-major (C) order
RECURSIVE NdIndex(_)
NdIndex(shape) ==
    IF shape = <<>> THEN << <<>> >>
    ELSE LET rest == NdIndex(Tail(shape))
             RECURSIVE Rows(_)
             Rows(i) == IF i >= Head(shape) THEN <<>>
                        ELSE [k \in 1..Len(rest) |-> <<i>> \o rest[k]] \o Rows(i + 1)
         IN Rows(0)

\* position (1-based) of index tuple c in a row-major array of the given shape
RECURSIVE LinIndex(_, _)
LinIndex(c, shape) ==
    IF c = <<>> THEN 1
    ELSE Head(c) * Prod(Tail(shape)) + LinIndex(Tail(c), Tail(shape))

CeilDiv(a, b) == (a + b - 1) \div b

---------------------------------------------------------------------------
(* The dataset on disk: two resolution levels of rank 2 (channel, x).      *)

\* the absent-chunk marker; TLC's integers are 32 bit wide, so the all-ones
\* 64-bit word is represented by the all-ones (non-negative) 31-bit word
UINT64_MAX == 2147483647

\* first cell of a blosc frame
BloscMagic == 7

\* the level directories in the order zarr_path.iterdir() yields them:
\* "0" and "1" are well formed; "2" names a chunk codec other than blosc,
\* "3" an index codec list without crc32c, "4" an index codec other than
\* bytes; the shard of "5" has damaged index entries; in "6" the chunk
\* extent does not divide the shard extent; the shard file of "7" is cut
\* short
LevelDirs == <<"0", "1", "2", "3", "4", "5", "6", "7">>
Levels == Range(LevelDirs)

\* the levels without a fault
DataLevels == {"0", "1"}

\* <zarr_path>/<res_lv>/zarr.json
ZarrJson(lv) ==
    LET good == [shape |-> <<1, 4>>, shard |-> <<1, 2>>, chunk |-> <<1, 1>>,
                 chunk_codec |-> "blosc", index_codecs |-> <<"bytes", "crc32c">>,
                 data_type |-> "uint16", fill_value |-> 5]
    IN CASE lv = "0" -> [good EXCEPT !.shape = <<1, 8>>, !.shard = <<1, 4>>,
                                     !.chunk = <<1, 2>>, !.fill_value = 0]
         [] lv = "1" -> good
         [] lv = "2" -> [good EXCEPT !.chunk_codec = "gzip"]
         [] lv = "3" -> [good EXCEPT !.index_codecs = <<"bytes">>]
         [] lv = "4" -> [good EXCEPT !.index_codecs = <<"zstd", "crc32c">>]
         [] lv = "5" -> [good EXCEPT !.shape = <<1, 7>>, !.shard = <<1, 7>>,
                                     !.fill_value = 9]
         [] lv = "6" -> [good EXCEPT !.shape = <<1, 6>>, !.shard = <<1, 3>>,
                                     !.chunk = <<1, 2>>, !.fill_value = 0]
         [] lv = "7" -> good

\* a chunk of n values compressed into a blosc frame
Frame(vals) == <<BloscMagic, Len(vals)>> \o vals

Absent == <<UINT64_MAX, UINT64_MAX>>

\* the shard files that exist: <<res_lv, s_idx>> -> [data, index]; data are
\* the cells of the compressed chunks, index the trailing offset/length
\* table in row-major order.  Shard <<0, 1>> of level "1" is inside the
\* shard grid and has no file.
KeyA == <<"0", <<0, 0>>>>
KeyB == <<"0", <<0, 1>>>>
KeyD == <<"1", <<0, 0>>>>
KeyE == <<"2", <<0, 0>>>>
KeyF == <<"5", <<0, 0>>>>
KeyG == <<"6", <<0, 0>>>>
KeyH == <<"7", <<0, 0>>>>

ShardKeys == {KeyA, KeyB, KeyD, KeyE, KeyF, KeyG, KeyH}

\* the file of shard <<0, 1>> of level "1", written while the reader runs
KeyLate == <<"1", <<0, 1>>>>

ShardFile(key) ==
    CASE key = KeyA -> [data |-> Frame(<<11, 12>>),
                        index |-> << <<0, 4>>, Absent >>]
      [] key = KeyB -> [data |-> Frame(<<21, 22>>) \o Frame(<<23, 24>>),
                        index |-> << <<4, 4>>, <<0, 4>> >>]
      [] key = KeyD -> [data |-> Frame(<<41>>),
                        index |-> << Absent, <<0, 3>> >>]
      [] key = KeyLate -> [data |-> Frame(<<51>>),
                           index |-> << <<0, 3>>, Absent >>]
      [] key = KeyE -> [data |-> Frame(<<45>>),
                        index |-> << <<0, 3>>, Absent >>]
      \* the chunks of level "5": 0 is sound; 1 and 2 have one field equal
      \* to the absent marker; 3 starts behind the end of the file; 4 starts
      \* inside a frame and runs over the end of the file; 5 is a frame cut
      \* short; 6 is a frame of two values where the chunk has one
      [] key = KeyF -> [data |-> Frame(<<61>>) \o Frame(<<62, 63>>) \o Frame(<<64>>),
                        index |-> << <<0, 3>>, <<UINT64_MAX, 3>>, <<0, UINT64_MAX>>,
                                     <<20, 3>>, <<8, 6>>, <<3, 3>>, <<3, 4>> >>]
      \* the index of level "6" has shard // chunk = 1 entry per shard
      [] key = KeyG -> [data |-> Frame(<<81, 82>>),
                        index |-> << <<0, 4>> >>]
      \* an empty file: shorter than the index table of its level
      [] key = KeyH -> [data |-> <<>>, index |-> <<>>]

\* an existence test that knows only the files present at construction
ShardExistedAtStart(path) == path \in ShardKeys

\* shard_path.exists()
ShardExists(path) == path \in ShardKeys \/ path \in created

---------------------------------------------------------------------------
(* zarr3_fs_reader.py: pure parts *)

\* a decomposition whose chunk index counts from the array origin instead of
\* from the shard origin
coor_to_global_chunk_index(c, shard_sz, chunk_sz) ==
    [s_idx    |-> [i \in DOMAIN c |-> c[i] \div shard_sz[i]],
     c_idx    |-> [i \in DOMAIN c |-> c[i] \div chunk_sz[i]],
     residual |-> [i \in DOMAIN c |-> c[i] % chunk_sz[i]]]

\* Python's // and % round to minus infinity, as \div and % do
coor_to_shard_chunk_index(c, shard_sz, chunk_sz) ==
    [s_idx    |-> [i \in DOMAIN c |-> c[i] \div shard_sz[i]],
     c_idx    |-> [i \in DOMAIN c |-> (c[i] % shard_sz[i]) \div chunk_sz[i]],
     residual |-> [i \in DOMAIN c |-> (c[i] % shard_sz[i]) % chunk_sz[i]]]

NoMeta == [none |-> TRUE]

\* get_zarr_group_meta: the ZarrMeta of a level, or the exception it raises
get_zarr_group_meta(lv) ==
    LET za == ZarrJson(lv) IN
    IF Len(za.index_codecs) < 1 THEN [err |-> "IndexError"]
    ELSE IF za.index_codecs[1] # "bytes" THEN [err |-> "NotImplementedError"]
    ELSE IF Len(za.index_codecs) < 2 THEN [err |-> "IndexError"]
    ELSE IF za.index_codecs[2] # "crc32c" THEN [err |-> "NotImplementedError"]
    ELSE IF za.chunk_codec # "blosc" THEN [err |-> "NotImplementedError"]
    ELSE [shape      |-> za.shape,
          shard_sz   |-> za.shard,
          chunk_sz   |-> za.chunk,
          compressor |-> za.chunk_codec,
          index_array_shape |->
              [i \in DOMAIN za.shard |-> za.shard[i] \div za.chunk[i]] \o <<2>>,
          dtype      |-> za.data_type,
          fill_value |-> za.fill_value]

\* _read_index_array: the trailing table of the shard file reshaped to
\* index_array_shape: a function from chunk index tuples to <<offset, nbytes>>
read_index_array(m, key) ==
    LET shp == SubSeq(m.index_array_shape, 1, Len(m.index_array_shape) - 1)
        all == NdIndex(shp)
    IN [c \in Range(all) |-> ShardFile(key).index[LinIndex(c, shp)]]

\* shard_fd.seek(offset); shard_fd.read(nbytes): short at the end of the file
FileRead(key, offset, nbytes) ==
    LET d == ShardFile(key).data
        hi == IF offset + nbytes > Len(d) THEN Len(d) ELSE offset + nbytes
    IN SubSeq(d, offset + 1, hi)

\* a fill that ignores the fill value of the metadata
ZeroArray(m) ==
    [shape |-> m.chunk_sz, dtype |-> m.dtype,
     data  |-> [i \in 1..Prod(m.chunk_sz) |-> 0]]

\* np.full(chunk_sz, fill_value, dtype)
FillArray(m) ==
    [shape |-> m.chunk_sz, dtype |-> m.dtype,
     data  |-> [i \in 1..Prod(m.chunk_sz) |-> m.fill_value]]

\* np.frombuffer(compressor.decode(raw), dtype).reshape(chunk_sz)
DecodeChunk(m, raw) ==
    IF Len(raw) < 2 \/ raw[1] # BloscMagic \/ raw[2] # Len(raw) - 2
    THEN [kind |-> "error", type |-> "RuntimeError"]
    ELSE IF raw[2] # Prod(m.chunk_sz)
    THEN [kind |-> "error", type |-> "ValueError"]
    ELSE [kind |-> "array",
          arr  |-> [shape |-> m.chunk_sz, dtype |-> m.dtype,
                    data  |-> SubSeq(raw, 3, Len(raw))]]

---------------------------------------------------------------------------
(* The OrderedDict of the index cache, as a sequence of [key, val] records *)

\* cache.get(shard_key) is None: no table (a table has entries)
NoIdx == <<>>

CacheKeys(c) == [i \in DOMAIN c |-> c[i].key]

\* OrderedDict.get(key): the value, or None
CacheGet(c, key) ==
    IF \E i \in DOMAIN c : c[i].key = key
    THEN c[CHOOSE i \in DOMAIN c : c[i].key = key].val
    ELSE NoIdx

RECURSIVE Without(_, _)
Without(c, key) ==
    IF c = <<>> THEN <<>>
    ELSE IF Head(c).key = key THEN Without(Tail(c), key)
    ELSE <<Head(c)>> \o Without(Tail(c), key)

\* OrderedDict.move_to_end(key)
MoveToEnd(c, key) ==
    LET v == CacheGet(c, key) IN Append(Without(c, key), [key |-> key, val |-> v])

\* an insertion that appends the entry also when the key is present
AppendItem(c, key, v) == Append(c, [key |-> key, val |-> v])

\* OrderedDict.__setitem__: a new key is appended, an existing key keeps its
\* position and gets the new value
SetItem(c, key, v) ==
    IF \E i \in DOMAIN c : c[i].key = key
    THEN [i \in DOMAIN c |-> IF c[i].key = key THEN [key |-> key, val |-> v] ELSE c[i]]
    ELSE Append(c, [key |-> key, val |-> v])

\* OrderedDict.popitem(last=False)
PopFirst(c) == Tail(c)

\* history: key becomes the most recently used one
RECURSIVE Drop(_, _)
Drop(u, key) ==
    IF u = <<>> THEN <<>>
    ELSE IF Head(u) = key THEN Drop(Tail(u), key)
    ELSE <<Head(u)>> \o Drop(Tail(u), key)

Touch(u, key) == Append(Drop(u, key), key)

---------------------------------------------------------------------------
(* zarr3_reader: the calls of the worker threads *)

Threads == {"t1", "t2"}
NoThread == "none"

Pending == [kind |-> "pending"]
Raise(type) == [kind |-> "error", type |-> type]

ReadOps == {"read", "raw", "exists"}

\* validate(mode): mode 'full_read' and mode 'size'
ValidateOps == {"validate", "validate_size"}

\* the shard grid validate walks: np.ndindex(ceil(shape / shard_sz))
ShardGrid(m) ==
    NdIndex([i \in DOMAIN m.shard_sz |-> CeilDiv(m.shape[i], m.shard_sz[i])])

\* shard_path: zarr_path / res_lv / 'c' / s_idx..., naming a file of the disk
shard_path(lv, s_idx) == <<lv, s_idx>>

\* a cache key that leaves out the level
shard_key_without_level(lv, s_idx) == <<"", s_idx>>

\* shard_key = (res_lv, s_idx)
shard_key(lv, s_idx) == <<lv, s_idx>>

\* the shard index of the call in progress
CurShard(t, m) ==
    IF op[t] \in ValidateOps THEN ShardGrid(m)[vsh[t]]
    ELSE coor_to_shard_chunk_index(coor[t], m.shard_sz, m.chunk_sz).s_idx

CurPath(t) == shard_path(lvl[t], CurShard(t, meta[t]))
CurKey(t) == shard_key(lvl[t], CurShard(t, meta[t]))

ReaderFields ==
    /\ maxItems \in 0..MaxCap
    /\ cache = <<>>
    /\ metaCache = [lv \in Levels |-> NoMeta]
    /\ lock = NoThread
    /\ pc = [t \in Threads |-> "idle"]
    /\ op = [t \in Threads |-> "none"]
    /\ lvl = [t \in Threads |-> "0"]
    /\ coor = [t \in Threads |-> <<>>]
    /\ meta = [t \in Threads |-> NoMeta]
    /\ idx = [t \in Threads |-> NoIdx]
    /\ res = [t \in Threads |-> Pending]
    /\ vsh = [t \in Threads |-> 0]
    /\ useOrder = <<>>
    /\ parses = [lv \in Levels |-> 0]
    /\ created = {}
    /\ swept = [t \in Threads |-> <<>>]
    /\ mark = [t \in Threads |-> {}]

\* the reader on the store with the level directories LevelDirs
ReaderInit == ReaderFields /\ dirs = LevelDirs

\* a thread enters read_chunk (b_decode True: "read", False: "raw"),
\* exists_chunk, clear_cache or validate
Call(t, o, lv, c) ==
    /\ pc[t] \in {"idle", "done"}
    /\ op' = [op EXCEPT ![t] = o]
    /\ lvl' = [lvl EXCEPT ![t] = lv]
    /\ coor' = [coor EXCEPT ![t] = c]
    /\ meta' = [meta EXCEPT ![t] = NoMeta]
    /\ idx' = [idx EXCEPT ![t] = NoIdx]
    /\ res' = [res EXCEPT ![t] = Pending]
    /\ vsh' = [vsh EXCEPT ![t] = 0]
    /\ swept' = [swept EXCEPT ![t] = <<>>]
    /\ mark' = [u \in Threads |->
                  IF u # t /\ pc[u] = "idx2" /\ o = "clear"
                  THEN mark[u] \cup {t} ELSE mark[u]]
    /\ pc' = [pc EXCEPT ![t] = IF o = "clear" THEN "clr" ELSE "meta"]
    /\ UNCHANGED <<maxItems, dirs, created, parses, cache, metaCache, lock, useOrder>>

CallRead(t, o, lv, c) == o \in ReadOps /\ Call(t, o, lv, c)
CallClear(t) == Call(t, "clear", "0", <<>>)

\* res_lv.is_dir(): the level directories among the entries of zarr_path
is_dir(name) == name \in Levels

\* for res_lv in zarr_path.iterdir(): if not res_lv.is_dir(): continue;
\* the position of the first directory at or after position from of the
\* listing, 0 when there is none
NextDir(from) ==
    LET S == {i \in DOMAIN dirs : i >= from /\ is_dir(dirs[i])}
    IN IF S = {} THEN 0 ELSE CHOOSE i \in S : \A j \in S : i <= j

\* a thread enters validate(mode) and comes to the first level directory
CallValidate(t, o) ==
    /\ o \in ValidateOps
    /\ NextDir(1) # 0
    /\ Call(t, o, dirs[NextDir(1)], <<>>)

\* a clear_cache that empties the index cache without taking the lock
ClearIndexUnlocked(t) ==
    /\ pc[t] = "clr"
    /\ cache' = <<>>
    /\ useOrder' = <<>>
    /\ pc' = [pc EXCEPT ![t] = "clrL"]
    /\ UNCHANGED <<maxItems, dirs, mark, swept, created, parses, metaCache, lock, op, lvl, coor, meta, idx, res, vsh>>

\* clear_cache: with self._lock: self._index_array_cache.clear()
ClearIndex(t) ==
    /\ pc[t] = "clr"
    /\ lock = NoThread
    /\ lock' = t
    /\ cache' = <<>>
    /\ useOrder' = <<>>
    /\ pc' = [pc EXCEPT ![t] = "clrL"]
    /\ UNCHANGED <<maxItems, dirs, mark, swept, created, parses, metaCache, op, lvl, coor, meta, idx, res, vsh>>

\* clear_cache: self._meta_cache.clear(), and the lock is released
ClearMeta(t) ==
    /\ pc[t] = "clrL"
    /\ lock = t
    /\ metaCache' = [lv \in Levels |-> NoMeta]
    /\ lock' = NoThread
    /\ pc' = [pc EXCEPT ![t] = "done"]
    /\ res' = [res EXCEPT ![t] = [kind |-> "void"]]
    /\ parses' = [lv \in Levels |-> 0]
    /\ mark' = [u \in Threads |->
                  IF t \in mark[u] THEN (mark[u] \ {t}) \cup {"returned"} ELSE mark[u]]
    /\ UNCHANGED <<maxItems, dirs, swept, created, cache, useOrder, op, lvl, coor, meta, idx, vsh>>

\* a _get_meta that never finds the level in the metadata cache
MetaGetUncached(t) ==
    /\ pc[t] = "meta"
    /\ lock = NoThread
    /\ lock' = t
    /\ meta' = [meta EXCEPT ![t] = NoMeta]
    /\ pc' = [pc EXCEPT ![t] = "metaL"]
    /\ UNCHANGED <<maxItems, dirs, mark, swept, created, parses, cache, metaCache, useOrder, op, lvl, coor, idx, res, vsh>>

\* _get_meta: with self._lock: meta = self._meta_cache.get(res_lv)
MetaGet(t) ==
    /\ pc[t] = "meta"
    /\ lock = NoThread
    /\ lock' = t
    /\ meta' = [meta EXCEPT ![t] = metaCache[lvl[t]]]
    /\ pc' = [pc EXCEPT ![t] = "metaL"]
    /\ UNCHANGED <<maxItems, dirs, mark, swept, created, parses, cache, metaCache, useOrder, op, lvl, coor, idx, res, vsh>>

\* the checks of read_chunk without the residual check
CheckCoorNoResidual(t, m) ==
    IF Len(coor[t]) # Len(m.shard_sz) THEN Raise("ValueError")
    ELSE IF ~ShardExists(shard_path(lvl[t], CurShard(t, m)))
    THEN CASE op[t] = "read" -> [kind |-> "array", arr |-> FillArray(m)]
           [] op[t] = "raw" -> [kind |-> "none"]
           [] op[t] = "exists" -> [kind |-> "bool", val |-> FALSE]
    ELSE Pending

\* the checks with an exists_chunk that answers True for a missing shard file
CheckCoorMissingTrue(t, m) ==
    IF Len(coor[t]) # Len(m.shard_sz) THEN Raise("ValueError")
    ELSE IF \E i \in DOMAIN coor[t] :
              coor_to_shard_chunk_index(coor[t], m.shard_sz, m.chunk_sz).residual[i] # 0
    THEN Raise("NotImplementedError")
    ELSE IF ~ShardExists(shard_path(lvl[t], CurShard(t, m)))
    THEN CASE op[t] = "read" -> [kind |-> "array", arr |-> FillArray(m)]
           [] op[t] = "raw" -> [kind |-> "none"]
           [] op[t] = "exists" -> [kind |-> "bool", val |-> TRUE]
    ELSE Pending

\* read_chunk / exists_chunk between _get_meta and the opening of the shard
\* file: the result the call ends with, or Pending when the file is opened
CheckCoor(t, m) ==
    IF Len(coor[t]) # Len(m.shard_sz) THEN Raise("ValueError")
    ELSE IF \E i \in DOMAIN coor[t] :
              coor_to_shard_chunk_index(coor[t], m.shard_sz, m.chunk_sz).residual[i] # 0
    THEN Raise("NotImplementedError")
    ELSE IF ~ShardExists(shard_path(lvl[t], CurShard(t, m)))
    THEN CASE op[t] = "read" -> [kind |-> "array", arr |-> FillArray(m)]
           [] op[t] = "raw" -> [kind |-> "none"]
           [] op[t] = "exists" -> [kind |-> "bool", val |-> FALSE]
    ELSE Pending

\* validate: the first shard at or after position from of the grid of level
\* lv whose file exists (the others are skipped), 0 when there is none
NextShard(lv, m, from) ==
    LET grid == ShardGrid(m)
        S == {i \in DOMAIN grid : i >= from /\ ShardExists(shard_path(lv, grid[i]))}
    IN IF S = {} THEN 0 ELSE CHOOSE i \in S : \A j \in S : i <= j

\* validate: where the walk continues after the shards before from of level
\* lv: the next existing shard, the next level directory, or the end
Advance(lv, m, from) ==
    LET n == NextShard(lv, m, from)
        pos == CHOOSE i \in DOMAIN dirs : dirs[i] = lv
        d == NextDir(pos + 1)
    IN IF n # 0 THEN [pc |-> "idx1", lvl |-> lv, vsh |-> n, meta |-> m]
       ELSE IF d # 0
       THEN [pc |-> "meta", lvl |-> dirs[d], vsh |-> 0, meta |-> NoMeta]
       ELSE [pc |-> "done", lvl |-> lv, vsh |-> 0, meta |-> m]

\* a _get_meta that keeps the lock when get_zarr_group_meta raises
MetaLoadLeak(t) ==
    /\ pc[t] = "metaL"
    /\ lock = t
    /\ lock' = IF meta[t] = NoMeta /\ "err" \in DOMAIN get_zarr_group_meta(lvl[t])
               THEN t ELSE NoThread
    /\ LET hit == meta[t] # NoMeta
           m == IF hit THEN meta[t] ELSE get_zarr_group_meta(lvl[t])
       IN IF "err" \in DOMAIN m
          THEN /\ pc' = [pc EXCEPT ![t] = "done"]
               /\ res' = [res EXCEPT ![t] = Raise(m.err)]
               /\ UNCHANGED <<metaCache, meta, lvl, vsh, parses>>
          ELSE /\ metaCache' = IF hit THEN metaCache
                               ELSE [metaCache EXCEPT ![lvl[t]] = m]
               /\ parses' = IF hit THEN parses
                            ELSE [parses EXCEPT ![lvl[t]] = @ + 1]
               /\ IF op[t] \in ValidateOps
                  THEN LET a == Advance(lvl[t], m, 1) IN
                       /\ pc' = [pc EXCEPT ![t] = a.pc]
                       /\ lvl' = [lvl EXCEPT ![t] = a.lvl]
                       /\ vsh' = [vsh EXCEPT ![t] = a.vsh]
                       /\ meta' = [meta EXCEPT ![t] = a.meta]
                       /\ res' = [res EXCEPT ![t] =
                                    IF a.pc = "done" THEN [kind |-> "void"] ELSE Pending]
                  ELSE LET r == CheckCoor(t, m) IN
                       /\ meta' = [meta EXCEPT ![t] = m]
                       /\ res' = [res EXCEPT ![t] = r]
                       /\ pc' = [pc EXCEPT ![t] = IF r = Pending THEN "idx1" ELSE "done"]
                       /\ UNCHANGED <<lvl, vsh>>
    /\ UNCHANGED <<maxItems, dirs, mark, swept, created, cache, useOrder, op, coor, idx>>

\* _get_meta: if meta is None: parse and store; return meta.  The lock is
\* released, also when get_zarr_group_meta raises.  The caller goes on to
\* the point where it opens a shard file, or ends.
MetaLoad(t) ==
    /\ pc[t] = "metaL"
    /\ lock = t
    /\ lock' = NoThread
    /\ LET hit == meta[t] # NoMeta
           m == IF hit THEN meta[t] ELSE get_zarr_group_meta(lvl[t])
       IN IF "err" \in DOMAIN m
          THEN /\ pc' = [pc EXCEPT ![t] = "done"]
               /\ res' = [res EXCEPT ![t] = Raise(m.err)]
               /\ UNCHANGED <<metaCache, meta, lvl, vsh, parses>>
          ELSE /\ metaCache' = IF hit THEN metaCache
                               ELSE [metaCache EXCEPT ![lvl[t]] = m]
               /\ parses' = IF hit THEN parses
                            ELSE [parses EXCEPT ![lvl[t]] = @ + 1]
               /\ IF op[t] \in ValidateOps
                  THEN LET a == Advance(lvl[t], m, 1) IN
                       /\ pc' = [pc EXCEPT ![t] = a.pc]
                       /\ lvl' = [lvl EXCEPT ![t] = a.lvl]
                       /\ vsh' = [vsh EXCEPT ![t] = a.vsh]
                       /\ meta' = [meta EXCEPT ![t] = a.meta]
                       /\ res' = [res EXCEPT ![t] =
                                    IF a.pc = "done" THEN [kind |-> "void"] ELSE Pending]
                  ELSE LET r == CheckCoor(t, m) IN
                       /\ meta' = [meta EXCEPT ![t] = m]
                       /\ res' = [res EXCEPT ![t] = r]
                       /\ pc' = [pc EXCEPT ![t] = IF r = Pending THEN "idx1" ELSE "done"]
                       /\ UNCHANGED <<lvl, vsh>>
    /\ UNCHANGED <<maxItems, dirs, mark, swept, created, cache, useOrder, op, coor, idx>>

\* _get_index_array: with self._lock: index_array = cache.get(shard_key)
IndexGet(t) ==
    /\ pc[t] = "idx1"
    /\ lock = NoThread
    /\ lock' = t
    /\ idx' = [idx EXCEPT ![t] = CacheGet(cache, CurKey(t))]
    /\ pc' = [pc EXCEPT ![t] = "idx1L"]
    /\ UNCHANGED <<maxItems, dirs, mark, swept, created, parses, cache, metaCache, useOrder, op, lvl, coor, meta, res, vsh>>

\* shard_fd.seek(int(offset)); shard_fd.read(int(nbytes)): of the values of
\* the model only the all-ones word is too large for the file offset (seek
\* raises ValueError) and for the length (read raises OverflowError)
SeekRead(key, offset, nbytes) ==
    IF offset = UINT64_MAX THEN Raise("ValueError")
    ELSE IF nbytes = UINT64_MAX THEN Raise("OverflowError")
    ELSE [kind |-> "bytes", data |-> FileRead(key, offset, nbytes)]

\* an absence test that is satisfied by one marker field
IsAbsentEither(offset, nbytes) == offset = UINT64_MAX \/ nbytes = UINT64_MAX

\* offset == UINT64_MAX and nbytes == UINT64_MAX
IsAbsent(offset, nbytes) == offset = UINT64_MAX /\ nbytes = UINT64_MAX

\* read_chunk / exists_chunk after the index table is known:
\* index_array[tuple(c_idx)] raises IndexError outside the table
ChunkResult(t, index) ==
    LET c_idx == coor_to_shard_chunk_index(coor[t], meta[t].shard_sz,
                                           meta[t].chunk_sz).c_idx
    IN IF c_idx \notin DOMAIN index THEN Raise("IndexError")
       ELSE
       LET e == index[c_idx]
           offset == e[1]
           nbytes == e[2]
           absent == IsAbsent(offset, nbytes)
           raw_data == SeekRead(CurPath(t), offset, nbytes)
       IN CASE op[t] = "exists" -> [kind |-> "bool", val |-> ~absent]
            [] op[t] = "read" ->
                  IF absent THEN [kind |-> "array", arr |-> FillArray(meta[t])]
                  ELSE IF raw_data.kind = "error" THEN raw_data
                  ELSE DecodeChunk(meta[t], raw_data.data)
            [] op[t] = "raw" ->
                  IF absent THEN [kind |-> "none"] ELSE raw_data

\* a chunk loop that the first failing chunk ends
ChunkSweepAbort(o, m, path, index) ==
    LET shp == SubSeq(m.index_array_shape, 1, Len(m.index_array_shape) - 1)
        Present(c) == ~IsAbsent(index[c][1], index[c][2])
        present == SelectSeq(NdIndex(shp), Present)
        Out(c) ==
            LET raw_data == SeekRead(path, index[c][1], index[c][2])
            IN IF o = "validate_size" THEN "counted"
               ELSE IF raw_data.kind = "error" THEN "error"
               ELSE IF DecodeChunk(m, raw_data.data).kind = "error" THEN "error"
               ELSE "read"
        failed == {i \in DOMAIN present : Out(present[i]) = "error"}
        last == IF failed = {} THEN Len(present)
                ELSE CHOOSE i \in failed : \A j \in failed : i <= j
    IN [i \in 1..last |-> [c_idx |-> present[i], out |-> Out(present[i])]]

\* validate: the chunks of one shard in np.ndindex order.  An entry with
\* the absent marker is passed over; in mode 'size' the others are counted;
\* in mode 'full_read' they are read and decoded inside try / except, and a
\* failure is logged
ChunkSweep(o, m, path, index) ==
    LET shp == SubSeq(m.index_array_shape, 1, Len(m.index_array_shape) - 1)
        Present(c) == ~IsAbsent(index[c][1], index[c][2])
        present == SelectSeq(NdIndex(shp), Present)
        Out(c) ==
            LET raw_data == SeekRead(path, index[c][1], index[c][2])
            IN IF o = "validate_size" THEN "counted"
               ELSE IF raw_data.kind = "error" THEN "error"
               ELSE IF DecodeChunk(m, raw_data.data).kind = "error" THEN "error"
               ELSE "read"
    IN [i \in DOMAIN present |-> [c_idx |-> present[i], out |-> Out(present[i])]]

\* the caller of _get_index_array with the index table in hand: read_chunk
\* and exists_chunk look the chunk up and return; validate reads the chunks
\* of the shard and walks on
UseIndex(t, index) ==
    IF op[t] \in ValidateOps
    THEN LET a == Advance(lvl[t], meta[t], vsh[t] + 1) IN
         /\ swept' = [swept EXCEPT ![t] =
                        Append(@, [lv |-> lvl[t], s_idx |-> CurShard(t, meta[t]),
                                   chunks |-> ChunkSweep(op[t], meta[t], CurPath(t), index)])]
         /\ pc' = [pc EXCEPT ![t] = a.pc]
         /\ lvl' = [lvl EXCEPT ![t] = a.lvl]
         /\ vsh' = [vsh EXCEPT ![t] = a.vsh]
         /\ meta' = [meta EXCEPT ![t] = a.meta]
         /\ idx' = [idx EXCEPT ![t] = NoIdx]
         /\ res' = [res EXCEPT ![t] =
                      IF a.pc = "done" THEN [kind |-> "void"] ELSE Pending]
    ELSE /\ res' = [res EXCEPT ![t] = ChunkResult(t, index)]
         /\ pc' = [pc EXCEPT ![t] = "done"]
         /\ UNCHANGED <<lvl, vsh, meta, idx, swept>>

\* _get_index_array: a hit is moved to the end and returned; on a miss the
\* lock is released and the table is read from the file
IndexHit(t) ==
    /\ pc[t] = "idx1L"
    /\ lock = t
    /\ lock' = NoThread
    /\ IF idx[t] # NoIdx
       THEN /\ cache' = MoveToEnd(cache, CurKey(t))
            /\ useOrder' = Touch(useOrder, CurKey(t))
            /\ UseIndex(t, idx[t])
       ELSE /\ pc' = [pc EXCEPT ![t] = "disk"]
            /\ UNCHANGED <<cache, useOrder, lvl, vsh, meta, idx, res, swept>>
    /\ UNCHANGED <<maxItems, dirs, mark, created, parses, metaCache, op, coor>>

\* shard_fd.seek(-index_array_bytes - crc_nbytes, os.SEEK_END) succeeds: the
\* file is not shorter than the table (the files of the model that hold
\* index entries hold the whole table)
HoldsTable(key) == ShardFile(key).index # <<>>

\* _get_index_array: index_array = self._read_index_array(meta, shard_fd),
\* outside the lock; the OSError of the seek ends the call
IndexRead(t) ==
    /\ pc[t] = "disk"
    /\ IF HoldsTable(CurPath(t))
       THEN /\ idx' = [idx EXCEPT ![t] = read_index_array(meta[t], CurPath(t))]
            /\ pc' = [pc EXCEPT ![t] = "idx2"]
            /\ UNCHANGED res
       ELSE /\ res' = [res EXCEPT ![t] = Raise("OSError")]
            /\ pc' = [pc EXCEPT ![t] = "done"]
            /\ UNCHANGED idx
    /\ UNCHANGED <<maxItems, dirs, mark, swept, created, parses, cache, metaCache, lock, useOrder, op, lvl, coor, meta, vsh>>

\* _get_index_array: with self._lock: cache[shard_key] = index_array
IndexInsert(t) ==
    /\ pc[t] = "idx2"
    /\ lock = NoThread
    /\ lock' = t
    /\ cache' = SetItem(cache, CurKey(t), idx[t])
    /\ useOrder' = Touch(useOrder, CurKey(t))
    /\ pc' = [pc EXCEPT ![t] = "idx2L"]
    /\ UNCHANGED <<maxItems, dirs, mark, swept, created, parses, metaCache, op, lvl, coor, meta, idx, res, vsh>>

\* an eviction test that lets one entry too many stay
OverCapacityByTwo(c, n) == Len(c) > n + 1

\* len(self._index_array_cache) > self._max_cache_items
OverCapacity(c, n) == Len(c) > n

\* _get_index_array: if len(cache) > max_cache_items: popitem(last=False);
\* the lock is released and the table returned
IndexEvict(t) ==
    /\ pc[t] = "idx2L"
    /\ lock = t
    /\ lock' = NoThread
    /\ IF OverCapacity(cache, maxItems)
       THEN /\ cache' = PopFirst(cache)
            /\ useOrder' = Drop(useOrder, Head(cache).key)
       ELSE UNCHANGED <<cache, useOrder>>
    /\ UseIndex(t, idx[t])
    /\ mark' = [mark EXCEPT ![t] = {}]
    /\ UNCHANGED <<maxItems, dirs, created, parses, metaCache, op, coor>>

\* a reader call leaves the variables of the other parts alone
ReaderOnly == UNCHANGED <<decompVars, tileVars>>

\* the steps of a call in progress
Step(t) ==
    \/ ClearIndex(t) /\ ReaderOnly
    \/ ClearMeta(t) /\ ReaderOnly
    \/ MetaGet(t) /\ ReaderOnly
    \/ MetaLoad(t) /\ ReaderOnly
    \/ IndexGet(t) /\ ReaderOnly
    \/ IndexHit(t) /\ ReaderOnly
    \/ IndexRead(t) /\ ReaderOnly
    \/ IndexInsert(t) /\ ReaderOnly
    \/ IndexEvict(t) /\ ReaderOnly

\* what the concurrent callers ask for
ConcOps == {"read", "exists"}
ConcCoords == { <<0, 0>>, <<0, 4>> }

NoDecomp == [none |-> TRUE]
NoReq == [api |-> "none"]
NoResp == [kind |-> "idle"]

DecompIdle == dq = NoDecomp /\ dd = NoDecomp
TileIdle == tq = NoReq /\ tr = NoResp /\ tq2 = NoReq /\ tr2 = NoResp

Init == ReaderInit /\ DecompIdle /\ TileIdle

Next ==
    \E t \in Threads :
        \/ \E o \in ConcOps, lv \in DataLevels, c \in ConcCoords :
              CallRead(t, o, lv, c) /\ ReaderOnly
        \/ CallClear(t) /\ ReaderOnly
        \/ CallValidate(t, "validate") /\ ReaderOnly
        \/ Step(t)

Spec == Init /\ [][Next]_vars

\* one caller, every kind of coordinate: aligned, unaligned, outside the
\* shape, negative, of a wrong rank
SeqCoords ==
    { <<0, x>> : x \in -2..9 } \cup { <<1, 0>>, <<0>>, <<0, 0, 0>> }

NextSeq ==
    \/ \E o \in ReadOps, lv \in DataLevels, c \in SeqCoords :
          CallRead("t1", o, lv, c) /\ ReaderOnly
    \/ CallClear("t1") /\ ReaderOnly
    \/ CallValidate("t1", "validate") /\ ReaderOnly
    \/ Step("t1")

SpecSeq == Init /\ [][NextSeq]_vars

\* another process writes the shard file KeyLate
CreateShard ==
    /\ KeyLate \notin created
    /\ created' = created \cup {KeyLate}
    /\ UNCHANGED <<maxItems, dirs, mark, swept, cache, metaCache, lock, pc, op, lvl, coor, meta,
                   idx, res, vsh, useOrder, parses>>

\* the chunk the file KeyLate holds
LateCoor == <<0, 2>>

\* the callers of one reader on a dataset that grows
NextGrow ==
    \/ \E t \in Threads, o \in ReadOps, c \in {<<0, 0>>, LateCoor} :
          CallRead(t, o, "1", c) /\ ReaderOnly
    \/ \E t \in Threads : CallClear(t) /\ ReaderOnly
    \/ \E t \in Threads : Step(t)
    \/ CreateShard /\ ReaderOnly

SpecGrow == Init /\ [][NextGrow]_vars

\* the levels with a fault, and the coordinates of their chunks
FaultLevels == {"2", "3", "4", "5", "6"}
FaultCoords == { <<0, x>> : x \in 0..6 }

\* one caller on the levels with a fault
NextFault ==
    \/ \E o \in ReadOps, lv \in FaultLevels, c \in FaultCoords :
          CallRead("t1", o, lv, c) /\ ReaderOnly
    \/ CallClear("t1") /\ ReaderOnly
    \/ Step("t1")

SpecFault == Init /\ [][NextFault]_vars

---------------------------------------------------------------------------
(* Claims about zarr3_reader *)

Done(t) == pc[t] = "done"

\* the level's metadata as parsed from its zarr.json
LevelMeta(lv) == get_zarr_group_meta(lv)

RankOk(lv, c) == Len(c) = Len(LevelMeta(lv).shard_sz)

Aligned(lv, c) ==
    /\ RankOk(lv, c)
    /\ \A i \in DOMAIN c :
          coor_to_shard_chunk_index(c, LevelMeta(lv).shard_sz,
                                    LevelMeta(lv).chunk_sz).residual[i] = 0

ShardOf(lv, c) ==
    coor_to_shard_chunk_index(c, LevelMeta(lv).shard_sz, LevelMeta(lv).chunk_sz).s_idx

ChunkOf(lv, c) ==
    coor_to_shard_chunk_index(c, LevelMeta(lv).shard_sz, LevelMeta(lv).chunk_sz).c_idx

InCache(key) == \E i \in DOMAIN cache : cache[i].key = key

\* C1: whenever the reader lock is not held, the index cache holds at most
\* max_cache_items entries, in every interleaving of read_chunk,
\* exists_chunk, validate and clear_cache calls.
C1_CacheBound == lock = NoThread => Len(cache) <= maxItems

\* a call on shard A has completed, the cache is full with the two other
\* shards: three distinct keys went through a cache of capacity two
C1_Witness ==
    /\ lock = NoThread
    /\ maxItems = 2
    /\ Len(cache) = 2
    /\ Done("t1") /\ op["t1"] \in ReadOps
    /\ CurKey("t1") = KeyA
    /\ ~InCache(KeyA)

\* C2: when an insertion pushes the cache over its capacity, the entry about
\* to be removed (the first of the OrderedDict) is the one whose last use,
\* its last insertion or successful get, is the oldest.
C2_EvictsLeastRecentlyUsed ==
    \A t \in Threads :
        (pc[t] = "idx2L" /\ OverCapacity(cache, maxItems))
            => Head(cache).key = Head(useOrder)

\* the result read_chunk computes on a reader with empty caches
ColdRead(lv, c) ==
    LET m == LevelMeta(lv)
        d == coor_to_shard_chunk_index(c, m.shard_sz, m.chunk_sz)
        path == shard_path(lv, d.s_idx)
    IN IF ~RankOk(lv, c) THEN Raise("ValueError")
       ELSE IF ~Aligned(lv, c) THEN Raise("NotImplementedError")
       ELSE IF ~ShardExists(path) THEN [kind |-> "array", arr |-> FillArray(m)]
       ELSE LET e == read_index_array(m, path)[d.c_idx] IN
            IF e = Absent THEN [kind |-> "array", arr |-> FillArray(m)]
            ELSE DecodeChunk(m, FileRead(path, e[1], e[2]))

\* C3: a completed read_chunk(level, c) has the result of a read on a cold
\* reader, whatever the index cache held when it ran; so two completed
\* reads of the same (level, c) agree.
C3_ReadIdempotent ==
    /\ \A t \in Threads :
          (Done(t) /\ op[t] = "read") => res[t] = ColdRead(lvl[t], coor[t])
    /\ \A t, u \in Threads :
          (/\ Done(t) /\ Done(u) /\ op[t] = "read" /\ op[u] = "read"
           /\ lvl[t] = lvl[u] /\ coor[t] = coor[u]) => res[t] = res[u]

\* a read of the stored chunk of shard A has completed after clear_cache()
\* emptied both caches: the other thread is done with clear_cache, and the
\* metadata and the index of shard A are cached again
C3_Witness ==
    /\ Done("t2") /\ op["t2"] = "clear"
    /\ Done("t1") /\ op["t1"] = "read" /\ lvl["t1"] = "0" /\ coor["t1"] = <<0, 0>>
    /\ res["t1"].kind = "array" /\ res["t1"].arr.data = <<11, 12>>
    /\ InCache(KeyA)
    /\ metaCache["0"] # NoMeta

\* C4: read_chunk (decode mode) of a chunk-aligned coordinate whose shard
\* file does not exist returns an array of shape chunk_sz and the declared
\* dtype filled with fill_value, and no key of a missing shard is ever in
\* the index cache.
C4_AbsentShardFill ==
    /\ \A t \in Threads :
          (/\ Done(t) /\ op[t] = "read" /\ Aligned(lvl[t], coor[t])
           /\ ~ShardExists(shard_path(lvl[t], ShardOf(lvl[t], coor[t]))))
          => /\ res[t].kind = "array"
             /\ res[t].arr.shape = LevelMeta(lvl[t]).chunk_sz
             /\ res[t].arr.dtype = LevelMeta(lvl[t]).dtype
             /\ Len(res[t].arr.data) = Prod(LevelMeta(lvl[t]).chunk_sz)
             /\ \A i \in DOMAIN res[t].arr.data :
                   res[t].arr.data[i] = LevelMeta(lvl[t]).fill_value
    /\ \A i \in DOMAIN cache : ShardExists(cache[i].key)

\* a read of level "1" at x = 2, whose shard <<0, 1>> has no file, has
\* completed on a reader whose cache is warm
C4_Witness ==
    /\ Done("t1") /\ op["t1"] = "read" /\ lvl["t1"] = "1" /\ coor["t1"] = <<0, 2>>
    /\ res["t1"].kind = "array" /\ res["t1"].arr.data = <<5>>
    /\ cache # <<>>

BadCoor(t) == op[t] \in ReadOps /\ ~Aligned(lvl[t], coor[t])

\* the steps in which a call has a shard file open or touches the index cache
AtShard(t) == pc[t] \in {"idx1", "idx1L", "disk", "idx2", "idx2L"}

---------------------------------------------------------------------------
(* coor_to_shard_chunk_index on its own *)

\* the dimensions of the coordinates decomposed
DecompDims == 1..2

Tuples(S) == [DecompDims -> S]

DecompInit ==
    /\ dq \in [c1 : Tuples(0..MaxCoord), c2 : Tuples(0..MaxCoord),
               shard_sz : Tuples(1..MaxSz), chunk_sz : Tuples(1..MaxSz)]
    /\ dd = NoDecomp

\* two coordinates are decomposed against the same shard and chunk sizes
Decompose ==
    /\ dd = NoDecomp
    /\ dd' = [a |-> coor_to_shard_chunk_index(dq.c1, dq.shard_sz, dq.chunk_sz),
              b |-> coor_to_shard_chunk_index(dq.c2, dq.shard_sz, dq.chunk_sz)]
    /\ UNCHANGED dq

InitCoord ==
    /\ DecompInit
    /\ TileIdle
    /\ ReaderInit /\ maxItems = 0

NextCoord == Decompose /\ UNCHANGED <<readerVars, tileVars>>

SpecCoord == InitCoord /\ [][NextCoord]_vars

\* the three properties of one decomposition
DecompSound(c, shard_sz, chunk_sz, d) ==
    \A i \in DOMAIN c :
        /\ shard_sz[i] * d.s_idx[i] + chunk_sz[i] * d.c_idx[i] + d.residual[i] = c[i]
        /\ 0 <= d.residual[i] /\ d.residual[i] < chunk_sz[i]
        /\ (d.residual[i] = 0) <=>
              (\E n \in 0..MaxCoord : c[i] - shard_sz[i] * d.s_idx[i] = n * chunk_sz[i])

\* C6: the decomposition (s, k, r) of a coordinate c reconstructs c as
\* shard_sz*s + chunk_sz*k + r with 0 <= r < chunk_sz in every dimension,
\* r is 0 exactly when the offset of c in its shard is a multiple of
\* chunk_sz, and two different coordinates have different decompositions.
C6_Decomposition ==
    dd # NoDecomp =>
        /\ DecompSound(dq.c1, dq.shard_sz, dq.chunk_sz, dd.a)
        /\ DecompSound(dq.c2, dq.shard_sz, dq.chunk_sz, dd.b)
        /\ DOMAIN dd.a.s_idx = DecompDims /\ DOMAIN dd.a.c_idx = DecompDims
        /\ DOMAIN dd.a.residual = DecompDims
        /\ dq.c1 # dq.c2 => dd.a # dd.b

\* two different coordinates of the same chunk, one of them unaligned, of a
\* shard whose size is not a multiple of the chunk size, were decomposed
C6_Witness ==
    /\ dd # NoDecomp
    /\ dq.shard_sz = <<3, 3>> /\ dq.chunk_sz = <<2, 2>>
    /\ dq.c1 = <<3, 4>> /\ dq.c2 = <<3, 3>>
    /\ dd.a = [s_idx |-> <<1, 1>>, c_idx |-> <<0, 0>>, residual |-> <<0, 1>>]
    /\ dd.b.residual = <<0, 0>>

---------------------------------------------------------------------------
(* Tile extraction: the image volume, numpy / h5py indexing, and the two   *)
(* extractors ImarisHandler.get_tile and DataService._read_tile.           *)

\* the shape (z, y, x) of the one dataset of the image file, and of the mask
VolShape == <<3, 4, 5>>

\* the voxels of the image (uint16): all different, some below the
\* background level 100, some above 2048 where float16 starts to round
ImgAt(z, y, x) == 97 + 1500 * z + 37 * y + x

\* the voxels of the region mask (uint8 labels)
MskAt(z, y, x) == (z + 2 * y + 3 * x) % 7

\* the file has resolution level 0 and channel 0 only
DatasetExists(level, channel) == level = 0 /\ channel = 0

\* the datasets of the specimen: the image and the region mask
VoxelAt(ds, z, y, x) == IF ds = "img" THEN ImgAt(z, y, x) ELSE MskAt(z, y, x)
DType(ds) == IF ds = "img" THEN "uint16" ELSE "uint8"

IntIx(i) == [int |-> TRUE, i |-> i]
Slice(lo, hi) == [int |-> FALSE, lo |-> lo, hi |-> hi]

\* slice.indices(n) for step 1: negative bounds count from the end, and
\* both bounds are clipped to 0..n
SliceBound(b, n) ==
    IF b < 0 THEN (IF b + n < 0 THEN 0 ELSE b + n)
    ELSE IF b > n THEN n ELSE b

\* the source indices a slice selects (none when stop <= start)
SliceSel(sl, n) ==
    LET lo == SliceBound(sl.lo, n)
        hi == SliceBound(sl.hi, n)
    IN [k \in 1..(IF hi > lo THEN hi - lo ELSE 0) |-> lo + k - 1]

\* an integer index: negative values count from the end
NormInt(i, n) == IF i < 0 THEN i + n ELSE i

\* dataset[roi] for a 3-D dataset: integer indices drop their dimension,
\* slices keep theirs; an integer index out of range raises IndexError
GetItem(ds, roi) ==
    IF \E d \in 1..3 :
          /\ roi[d].int
          /\ (NormInt(roi[d].i, VolShape[d]) < 0 \/ NormInt(roi[d].i, VolShape[d]) >= VolShape[d])
    THEN Raise("IndexError")
    ELSE LET kept == SelectSeq(<<1, 2, 3>>, LAMBDA d : ~roi[d].int)
             sel(d) == SliceSel(roi[d], VolShape[d])
             shape == [k \in 1..Len(kept) |-> Len(sel(kept[k]))]
             ixs == NdIndex(shape)
             src(ix, d) ==
                 IF roi[d].int THEN NormInt(roi[d].i, VolShape[d])
                 ELSE sel(d)[ix[CHOOSE k \in 1..Len(kept) : kept[k] = d] + 1]
         IN [kind |-> "array",
             arr  |-> [shape |-> shape, dtype |-> DType(ds),
                       data  |-> [n \in 1..Len(ixs) |->
                                    VoxelAt(ds, src(ixs[n], 1), src(ixs[n], 2),
                                            src(ixs[n], 3))]]]

\* element (i, j) of a 2-D array
At2(a, i, j) == a.data[i * a.shape[2] + j + 1]

\* a[::-1, :]
FlipRows(a) ==
    [a EXCEPT !.data = [k \in 1..Len(a.data) |->
        At2(a, a.shape[1] - 1 - ((k - 1) \div a.shape[2]), (k - 1) % a.shape[2])]]

\* a[:, ::-1]
FlipCols(a) ==
    [a EXCEPT !.data = [k \in 1..Len(a.data) |->
        At2(a, (k - 1) \div a.shape[2], a.shape[2] - 1 - ((k - 1) % a.shape[2]))]]

\* a[::-1, ::-1]
FlipBoth(a) ==
    [a EXCEPT !.data = [k \in 1..Len(a.data) |->
        At2(a, a.shape[1] - 1 - ((k - 1) \div a.shape[2]),
               a.shape[2] - 1 - ((k - 1) % a.shape[2]))]]

\* a.T
Transpose(a) ==
    [shape |-> <<a.shape[2], a.shape[1]>>, dtype |-> a.dtype,
     data  |-> [k \in 1..Len(a.data) |->
                  At2(a, (k - 1) % a.shape[1], (k - 1) \div a.shape[1])]]

ViewTypes == {"sagittal", "coronal", "horizontal"}

\* ImarisHandler(path).get_tile on the file ds of the specimen
ImarisHandler_get_tile(ds, view, level, channel, z, y, x, tile_size) ==
    LET pivot_zyx == <<z, y, x>>
        cut(roi) == GetItem(ds, roi).arr
    IN IF ~DatasetExists(level, channel) THEN Raise("KeyError")
       ELSE IF \E i \in 1..3 : pivot_zyx[i] < 0 \/ pivot_zyx[i] >= VolShape[i]
       THEN Raise("IndexError")
       ELSE IF view = "coronal"
       THEN [kind |-> "array",
             arr |-> FlipBoth(cut(<<IntIx(z), Slice(y, y + tile_size), Slice(x, x + tile_size)>>))]
       ELSE IF view = "sagittal"
       THEN [kind |-> "array",
             arr |-> Transpose(FlipCols(
                        cut(<<Slice(z, z + tile_size), Slice(y, y + tile_size), IntIx(x)>>)))]
       ELSE IF view = "horizontal"
       THEN [kind |-> "array",
             arr |-> FlipBoth(cut(<<Slice(z, z + tile_size), IntIx(y), Slice(x, x + tile_size)>>))]
       ELSE Raise("ValueError")

\* ImarisHandler.get_tile on the image file
get_tile(view, level, channel, z, y, x, tile_size) ==
    ImarisHandler_get_tile("img", view, level, channel, z, y, x, tile_size)

\* ImarisHandler.get_data_shape
get_data_shape(level, channel) ==
    IF ~DatasetExists(level, channel) THEN Raise("KeyError")
    ELSE [kind |-> "value", val |-> VolShape]

\* ImarisHandler.calculate_tile_grid_size; get_channels() is [0]
calculate_tile_grid_size(view, level, tile_size) ==
    LET shape == get_data_shape(level, 0)
        hw == CASE view = "sagittal" -> <<shape.val[1], shape.val[2]>>
                [] view = "coronal" -> <<shape.val[1], shape.val[3]>>
                [] view = "horizontal" -> <<shape.val[2], shape.val[3]>>
        height == hw[1]
        width == hw[2]
    IN IF shape.kind = "error" THEN shape
       ELSE IF view \notin ViewTypes THEN Raise("ValueError")
       ELSE [kind |-> "value",
             val |-> [tiles_x |-> (width + tile_size - 1) \div tile_size,
                      tiles_y |-> (height + tile_size - 1) \div tile_size]]

\* DataService._read_tile on the dataset that _resolve_image_path selected
read_tile(ds, view_type, zyx, tile_size_0) ==
    LET roi(tile_size) == [i \in 1..3 |-> Slice(zyx[i], zyx[i] + tile_size[i])]
    IN CASE view_type = "xy" ->
              GetItem(ds,
                  [roi(<<1, tile_size_0[1], tile_size_0[2]>>) EXCEPT ![1] = IntIx(zyx[1])])
         [] view_type = "yz" ->
              GetItem(ds,
                  [roi(<<tile_size_0[1], tile_size_0[2], 1>>) EXCEPT ![3] = IntIx(zyx[3])])
         [] view_type = "xz" ->
              GetItem(ds,
                  [roi(<<tile_size_0[1], 1, tile_size_0[2]>>) EXCEPT ![2] = IntIx(zyx[2])])
         [] view_type = "3d" -> GetItem(ds, roi(tile_size_0))
         [] OTHER -> Raise("ValueError")

---------------------------------------------------------------------------
(* The /data resolver: the catalog, parse_data_id, get_tile_bytes and the  *)
(* encodings.                                                              *)

\* an optional value: <<>> is None, <<v>> is v
None == <<>>
Some(v) == <<v>>

\* the specimens of the catalog
Specimens == {"RM009"}

\* an entry of the catalog: tile sizes and, for every view, the list of
\* [file index, resolution levels, channels]
CatalogEntry ==
    [tile_size_2d |-> <<TileSize, TileSize>>,
     tile_size_3d |-> <<TileSize, TileSize, TileSize>>,
     data_provider |-> [v \in {"xy", "yz", "xz", "3d"} |-> << <<0, <<0>>, <<0>>>> >>]]

\* data_provider.get(view_type, [])
Provider(view_type) ==
    IF view_type \in DOMAIN CatalogEntry.data_provider
    THEN CatalogEntry.data_provider[view_type] ELSE <<>>

\* ParsedDataId.view_explain: "3d" names a member ViewType does not have
view_explain(view_type) ==
    CASE view_type = "xz" -> [kind |-> "value", val |-> Some("horizontal")]
      [] view_type = "yz" -> [kind |-> "value", val |-> Some("sagittal")]
      [] view_type = "xy" -> [kind |-> "value", val |-> Some("coronal")]
      [] view_type = "3d" -> Raise("AttributeError")
      [] OTHER -> [kind |-> "value", val |-> None]

\* ParsedDataId.index_tuple: pos_index split at the commas
index_tuple(pos_index) ==
    IF Len(pos_index) # 3 THEN Raise("ValueError")
    ELSE [kind |-> "value", val |-> pos_index]

\* parse_data_id on the five segments of a data id: the encoding defaults
\* to raw for img and to png for msk
parse_data_id(id) ==
    [specimen_id |-> id.specimen,
     modality    |-> id.mod,
     view_type   |-> id.view,
     encoding    |-> IF id.enc # None THEN id.enc[1]
                     ELSE IF id.mod = "img" THEN "raw"
                     ELSE IF id.mod = "msk" THEN "png" ELSE "obj",
     res_level   |-> id.rl,
     channel     |-> id.ch,
     pos_index   |-> id.pos]

---------------------------------------------------------------------------
(* parse_data_id on the text of a data id: a string is the sequence of its
   characters *)

Digits == <<"0", "1", "2", "3", "4", "5", "6", "7", "8", "9">>

\* the characters [A-Za-z0-9_] of the alphabet of the model
WordChars ==
    Range(Digits) \cup {"_", "a", "b", "c", "d", "g", "h", "i", "j", "k", "m",
                        "n", "o", "p", "r", "s", "w", "x", "y", "z", "I", "M", "G", "R"}

\* str.isspace
IsSpace(ch) == ch \in {" ", "\n", "\t"}

\* str.split(sep): the pieces between the separators
RECURSIVE split(_, _)
split(text, sep) ==
    IF \A i \in DOMAIN text : text[i] # sep THEN <<text>>
    ELSE LET i == CHOOSE k \in DOMAIN text :
                      text[k] = sep /\ \A j \in 1..(k - 1) : text[j] # sep
         IN <<SubSeq(text, 1, i - 1)>> \o split(SubSeq(text, i + 1, Len(text)), sep)

\* str.strip(): without the white space at both ends
RECURSIVE strip(_)
strip(text) ==
    IF text = <<>> THEN <<>>
    ELSE IF IsSpace(text[1]) THEN strip(Tail(text))
    ELSE IF IsSpace(text[Len(text)]) THEN strip(SubSeq(text, 1, Len(text) - 1))
    ELSE text

StartsWith(text, prefix) ==
    Len(text) >= Len(prefix) /\ SubSeq(text, 1, Len(prefix)) = prefix

\* the value of a sequence of decimal digits
RECURSIVE DigitsValue(_)
DigitsValue(ds) ==
    IF ds = <<>> THEN 0
    ELSE 10 * DigitsValue(SubSeq(ds, 1, Len(ds) - 1))
         + (CHOOSE d \in 0..9 : Digits[d + 1] = ds[Len(ds)])

\* int(text): white space around the literal is dropped; a sign may come
\* first; single underscores may stand between the digits
int(text) ==
    LET t == strip(text)
        signed == t # <<>> /\ t[1] \in {"+", "-"}
        body == IF signed THEN Tail(t) ELSE t
        ok == /\ body # <<>>
              /\ \A i \in DOMAIN body : body[i] \in Range(Digits) \cup {"_"}
              /\ body[1] # "_" /\ body[Len(body)] # "_"
              /\ \A i \in 1..(Len(body) - 1) : ~(body[i] = "_" /\ body[i + 1] = "_")
        v == DigitsValue(SelectSeq(body, LAMBDA ch : ch # "_"))
    IN IF ~ok THEN Raise("ValueError")
       ELSE [kind |-> "value", val |-> IF signed /\ t[1] = "-" THEN 0 - v ELSE v]

\* the alternatives of the groups mod and view of _IMAGE_TYPE_RE, in the
\* order the pattern lists them
ModTokens == << <<"i", "m", "g">>, <<"m", "s", "k">>, <<"m", "e", "h">> >>
ViewTokens == << <<"x", "y">>, <<"y", "z">>, <<"x", "z">>, <<"3", "d">>,
                 <<"c">>, <<"s">>, <<"h">>, <<"3">> >>

\* the rest of _IMAGE_TYPE_RE after the view: (?:-(?P<enc>[A-Za-z0-9_]+))?$,
\* where $ matches at the end and before a newline that ends the string.
\* The result holds the group enc, None when the group did not take part.
MatchEncoding(rest) ==
    LET body == IF rest # <<>> /\ rest[Len(rest)] = "\n"
                THEN SubSeq(rest, 1, Len(rest) - 1) ELSE rest
        word(w) == w # <<>> /\ \A i \in DOMAIN w : w[i] \in WordChars
    IN IF rest = <<>> \/ rest = <<"\n">> THEN [ok |-> TRUE, enc |-> None]
       ELSE IF rest[1] = "-" /\ word(Tail(rest)) THEN [ok |-> TRUE, enc |-> Some(Tail(rest))]
       ELSE IF rest[1] = "-" /\ word(Tail(body)) THEN [ok |-> TRUE, enc |-> Some(Tail(body))]
       ELSE [ok |-> FALSE, enc |-> None]

\* _IMAGE_TYPE_RE.match(image_type_token): the groups, or no match; of the
\* alternatives that let the whole pattern match the first one is taken
IMAGE_TYPE_RE_match(token) ==
    LET mods == {k \in DOMAIN ModTokens : StartsWith(token, ModTokens[k])}
        after_mod == SubSeq(token, 4, Len(token))
        views == {k \in DOMAIN ViewTokens :
                     /\ StartsWith(after_mod, ViewTokens[k])
                     /\ MatchEncoding(SubSeq(after_mod, Len(ViewTokens[k]) + 1,
                                             Len(after_mod))).ok}
    IN IF mods = {} \/ views = {} THEN [ok |-> FALSE]
       ELSE LET m == CHOOSE k \in mods : TRUE
                v == CHOOSE k \in views : \A j \in views : k <= j
            IN [ok |-> TRUE, mod |-> ModTokens[m], view |-> ViewTokens[v],
                enc |-> MatchEncoding(SubSeq(after_mod, Len(ViewTokens[v]) + 1,
                                             Len(after_mod))).enc]

\* a default that is raw for every modality
DefaultEncodingRaw(modality) == <<"r", "a", "w">>

\* the default encoding of a modality
DefaultEncoding(modality) ==
    CASE modality = <<"i", "m", "g">> -> <<"r", "a", "w">>
      [] modality = <<"m", "s", "k">> -> <<"p", "n", "g">>
      [] modality = <<"m", "e", "h">> -> <<"o", "b", "j">>

\* int(raw) if raw.strip() != '' else None
OptionalInt(raw) ==
    IF strip(raw) = <<>> THEN [kind |-> "value", val |-> None]
    ELSE LET n == int(raw) IN
         IF n.kind = "error" THEN n ELSE [kind |-> "value", val |-> Some(n.val)]

\* parse_data_id on the text of the data id
parse_data_id_text(data_id) ==
    LET parts == split(data_id, ":")
        m == IMAGE_TYPE_RE_match(parts[2])
        rl == OptionalInt(parts[3])
        ch == OptionalInt(parts[4])
    IN IF Len(parts) # 5 THEN Raise("ValueError")
       ELSE IF ~m.ok THEN Raise("ValueError")
       ELSE IF rl.kind = "error" THEN rl
       ELSE IF ch.kind = "error" THEN ch
       ELSE [kind |-> "value",
             val |-> [specimen_id |-> parts[1],
                      modality    |-> m.mod,
                      view_type   |-> m.view,
                      encoding    |-> IF m.enc # None THEN m.enc[1]
                                      ELSE DefaultEncoding(m.mod),
                      res_level   |-> rl.val,
                      channel     |-> ch.val,
                      pos_index   |-> parts[5]]]

\* get_specimen_meta
HasSpecimen(specimen_id) == specimen_id \in Specimens

\* _get_tile_size
get_tile_size(specimen_id, modality, view_type) ==
    IF ~HasSpecimen(specimen_id) THEN Raise("KeyError")
    ELSE IF view_type = "3d" THEN [kind |-> "value", val |-> CatalogEntry.tile_size_3d]
    ELSE IF view_type \in {"xy", "yz", "xz"}
    THEN [kind |-> "value", val |-> CatalogEntry.tile_size_2d]
    ELSE Raise("ValueError")

InList(v, list) == v # None /\ \E k \in DOMAIN list : list[k] = v[1]

\* _resolve_image_path: the first provider entry that lists the level and
\* the channel
resolve_image_path(specimen_id, modality, view_type, res_level, channel) ==
    IF ~HasSpecimen(specimen_id) THEN Raise("KeyError")
    ELSE IF modality \notin {"img", "msk"} THEN Raise("ValueError")
    ELSE LET entries == Provider(view_type)
             hits == {k \in DOMAIN entries :
                         InList(res_level, entries[k][2]) /\ InList(channel, entries[k][3])}
         IN IF hits = {} THEN Raise("FileNotFoundError")
            ELSE LET k == CHOOSE h \in hits : \A g \in hits : h <= g
                 IN [kind |-> "value",
                     val |-> [fidx |-> entries[k][1],
                              res_lv_idx |-> CHOOSE n \in DOMAIN entries[k][2] :
                                                 entries[k][2][n] = res_level[1],
                              channel |-> channel[1]]]

\* floor(log2(n)) for 1 <= n < 2^16
Log2Floor(n) == CHOOSE e \in 0..15 : 2^e <= n /\ n < 2^(e + 1)

\* the bit pattern of astype(np.float16) for an integer 0 <= n <= 65519:
\* 10 bits of mantissa, round to nearest, ties to even
Fp16Bits(n) ==
    IF n = 0 THEN 0
    ELSE LET e == Log2Floor(n)
         IN IF e <= 10 THEN (e + 15) * 1024 + (n * 2^(10 - e) - 1024)
            ELSE LET step == 2^(e - 10)
                     q == n \div step
                     rem == n % step
                     up == 2 * rem > step \/ (2 * rem = step /\ q % 2 = 1)
                 IN (e + 15) * 1024 + ((IF up THEN q + 1 ELSE q) - 1024)

\* the value of a float16 bit pattern that holds a non-negative integer
Fp16Value(bits) ==
    IF bits = 0 THEN 0
    ELSE LET e == bits \div 1024
             m == 1024 + (bits % 1024)
         IN IF e >= 25 THEN m * 2^(e - 25) ELSE m \div 2^(25 - e)

\* np.clip(tile - 100, 0, 65500) in the tile's dtype uint16: the
\* subtraction wraps around below 100
RemoveBackground(v) ==
    LET w == (v - 100) % 65536
    IN IF w > 65500 THEN 65500 ELSE w

\* the two bytes of the float16 elements, low byte first
LittleEndian(bits) ==
    [k \in 1..(2 * Len(bits)) |->
        IF k % 2 = 1 THEN bits[(k + 1) \div 2] % 256 ELSE bits[k \div 2] \div 256]

\* the bytes of an array with its elements in column-major order
tobytes_column_major(a) ==
    IF Len(a.shape) = 2 THEN LittleEndian(Transpose(a).data) ELSE LittleEndian(a.data)

\* ndarray.tobytes(): the elements in C (row-major) order
tobytes(a) == LittleEndian(a.data)

\* np.clip(tile - 100, 0, 65500) on every element
clip_background(a) ==
    [a EXCEPT !.data = [k \in DOMAIN a.data |-> RemoveBackground(a.data[k])]]

\* astype(np.float32).astype(np.float16): the float16 bit patterns
astype_float16(a) ==
    [shape |-> a.shape, dtype |-> "float16",
     data |-> [k \in DOMAIN a.data |-> Fp16Bits(a.data[k])]]

\* PIL's PNG encoding of a palette image, kept lossless: the first bytes of
\* the PNG signature, the height and width, and the palette indices
PngEncode(a) == <<137, 80, 78, 71>> \o a.shape \o a.data

\* DataService.get_tile_bytes
get_tile_bytes(parsed) ==
    LET zyx == index_tuple(parsed.pos_index)
        tile_size == get_tile_size(parsed.specimen_id, parsed.modality, parsed.view_type)
        path == resolve_image_path(parsed.specimen_id, parsed.modality, parsed.view_type,
                                   parsed.res_level, parsed.channel)
        tile == read_tile(parsed.modality, parsed.view_type, zyx.val, tile_size.val)
    IN IF parsed.modality \notin {"img", "msk"} THEN Raise("ValueError")
       ELSE IF view_explain(parsed.view_type).kind = "error"
       THEN view_explain(parsed.view_type)
       ELSE IF view_explain(parsed.view_type).val = None THEN Raise("ValueError")
       ELSE IF parsed.res_level = None THEN Raise("ValueError")
       ELSE IF parsed.channel = None /\ parsed.modality = "img" THEN Raise("ValueError")
       ELSE IF zyx.kind = "error" THEN zyx
       ELSE IF tile_size.kind = "error" THEN tile_size
       ELSE IF path.kind = "error" THEN path
       ELSE IF tile.kind = "error" THEN tile
       ELSE IF parsed.modality = "img"
       THEN IF parsed.encoding # "raw" THEN Raise("ValueError")
            ELSE [kind |-> "value",
                  val |-> tobytes(astype_float16(clip_background(tile.arr)))]
       ELSE IF parsed.encoding # "png" THEN Raise("ValueError")
            ELSE IF tile.arr.dtype # "uint8" THEN Raise("AssertionError")
            ELSE [kind |-> "value", val |-> PngEncode(tile.arr)]

\* fetch_data_piece: GET /data/{data_id} for an img or msk data id
fetch_data_piece(id) ==
    LET out == get_tile_bytes(parse_data_id(id))
    IN IF out.kind = "value"
       THEN [kind |-> "http", status |-> 200, body |-> out.val]
       ELSE IF out.type = "ValueError" THEN [kind |-> "http", status |-> 400, body |-> <<>>]
       ELSE IF out.type \in {"FileNotFoundError", "KeyError"}
       THEN [kind |-> "http", status |-> 404, body |-> <<>>]
       ELSE [kind |-> "http", status |-> 500, body |-> <<>>]

\* np.frombuffer(content, dtype=np.float16).reshape((rows, cols)), as the
\* adjacency check decodes a response; ValueError when the size is wrong
frombuffer(content, rows, cols) ==
    IF Len(content) # 2 * rows * cols THEN Raise("ValueError")
    ELSE [kind |-> "array",
          arr |-> [shape |-> <<rows, cols>>, dtype |-> "float16",
                   data |-> [k \in 1..(rows * cols) |->
                               Fp16Value(content[2 * k - 1] + 256 * content[2 * k])]]]

---------------------------------------------------------------------------
(* The tile requests *)

\* origins reach one voxel outside the volume on both sides
Origins == (-1..VolShape[1]) \X (-1..VolShape[2]) \X (-1..VolShape[3])

DataIds ==
    [specimen : {"RM009", "RM000"}, mod : {"img", "msk"},
     view : {"xy", "yz", "xz", "3d", "c"},
     enc : {None, Some("raw"), Some("png")},
     rl : {None, Some(0), Some(1)}, ch : {None, Some(0)},
     pos : Origins \cup {<<0, 0>>}]

\* a direct call of ImarisHandler.get_tile
CallGetTile ==
    /\ tq = NoReq
    /\ \E view \in ViewTypes, level \in 0..1, channel \in 0..1, o \in Origins :
        /\ tq' = [api |-> "get_tile", view |-> view, level |-> level,
                  channel |-> channel, zyx |-> o]
        /\ tr' = get_tile(view, level, channel, o[1], o[2], o[3], TileSize)
    /\ UNCHANGED <<tq2, tr2>>

\* a direct call of DataService._read_tile on the image dataset
CallReadTile ==
    /\ tq = NoReq
    /\ \E view \in {"xy", "yz", "xz", "3d", "c"}, o \in Origins :
        /\ tq' = [api |-> "read_tile", view |-> view, zyx |-> o]
        /\ tr' = read_tile("img", view, o,
                           IF view = "3d" THEN CatalogEntry.tile_size_3d
                           ELSE CatalogEntry.tile_size_2d)
    /\ UNCHANGED <<tq2, tr2>>

\* GET /data/{data_id}
FetchData ==
    /\ tq = NoReq
    /\ \E id \in DataIds :
        /\ tq' = [api |-> "data", id |-> id]
        /\ tr' = fetch_data_piece(id)
    /\ UNCHANGED <<tq2, tr2>>

\* a second GET whose origin is TileSize \div 2 further along one axis, as
\* the adjacency check of the tests and of the benchmark makes it
FetchAdjacent ==
    /\ tq.api = "data" /\ tq2 = NoReq
    /\ Len(tq.id.pos) = 3
    /\ \E axis \in 1..3 :
        LET id2 == [tq.id EXCEPT !.pos[axis] = @ + TileSize \div 2]
        IN /\ tq2' = [api |-> "data", id |-> id2, axis |-> axis]
           /\ tr2' = fetch_data_piece(id2)
    /\ UNCHANGED <<tq, tr>>

InitTile ==
    /\ TileIdle
    /\ DecompIdle
    /\ ReaderInit /\ maxItems = 0

\* TileService._array_to_image_bytes: the bytes PIL writes, kept as the
\* format and the array handed over; the scaling to uint8 and the encoders
\* work on the pixel values and move no pixel
array_to_image_bytes(array, format) ==
    IF Len(array.shape) # 2 \/ format \notin {"JPEG", "PNG"} THEN Raise("ValueError")
    ELSE [kind |-> "bytes", format |-> format, image |-> array]

\* tile_data[::-1, :]: the rows in reverse order
tile_flipped(tile_data) ==
    [tile_data EXCEPT !.data = [k \in 1..Len(tile_data.data) |->
        At2(tile_data, tile_data.shape[1] - 1 - ((k - 1) \div tile_data.shape[2]),
            (k - 1) % tile_data.shape[2])]]

\* TileService.extract_image_tile
extract_image_tile(specimen_id, view, level, channel, z, y, x, tile_size) ==
    LET tile_data == ImarisHandler_get_tile("img", view, level, channel, z, y, x, tile_size)
    IN IF ~HasSpecimen(specimen_id) THEN Raise("FileNotFoundError")
       ELSE IF tile_data.kind = "error" THEN tile_data
       ELSE array_to_image_bytes(tile_flipped(tile_data.arr), "JPEG")

\* TileService.extract_atlas_tile: channel 0 of the atlas file
extract_atlas_tile(specimen_id, view, level, z, y, x, tile_size) ==
    LET tile_data == ImarisHandler_get_tile("msk", view, level, 0, z, y, x, tile_size)
    IN IF ~HasSpecimen(specimen_id) THEN Raise("FileNotFoundError")
       ELSE IF tile_data.kind = "error" THEN tile_data
       ELSE array_to_image_bytes(tile_data.arr, "PNG")

\* TileService.calculate_tile_grid with default_tile_size = TileSize
calculate_tile_grid(specimen_id, view, level) ==
    LET grid == calculate_tile_grid_size(view, level, TileSize)
        shape == get_data_shape(level, 0)
    IN IF ~HasSpecimen(specimen_id) THEN Raise("FileNotFoundError")
       ELSE IF grid.kind = "error" THEN grid
       ELSE IF shape.kind = "error" THEN shape
       ELSE [kind |-> "value",
             val |-> [view |-> view, level |-> level, tile_size |-> TileSize,
                      tiles_x |-> grid.val.tiles_x, tiles_y |-> grid.val.tiles_y,
                      image_shape |-> shape.val,
                      total_tiles |-> grid.val.tiles_x * grid.val.tiles_y]]

\* a call of TileService.extract_image_tile
CallImageTile ==
    /\ tq = NoReq
    /\ \E specimen \in {"RM009", "RM000"}, view \in ViewTypes, level \in 0..1, o \in Origins :
        /\ tq' = [api |-> "image_tile", specimen |-> specimen, view |-> view,
                  level |-> level, zyx |-> o]
        /\ tr' = extract_image_tile(specimen, view, level, 0, o[1], o[2], o[3], TileSize)
    /\ UNCHANGED <<tq2, tr2>>

\* the call of TileService.extract_atlas_tile for the same tile
CallAtlasTile ==
    /\ tq.api = "image_tile" /\ tq2 = NoReq
    /\ tq2' = [tq EXCEPT !.api = "atlas_tile"]
    /\ tr2' = extract_atlas_tile(tq.specimen, tq.view, tq.level,
                                 tq.zyx[1], tq.zyx[2], tq.zyx[3], TileSize)
    /\ UNCHANGED <<tq, tr>>

\* a direct call of ImarisHandler.calculate_tile_grid_size
CallGridSize ==
    /\ tq = NoReq
    /\ \E view \in ViewTypes, level \in 0..1, tile_size \in 1..MaxSz :
        /\ tq' = [api |-> "grid_size", view |-> view, level |-> level,
                  tile_size |-> tile_size]
        /\ tr' = calculate_tile_grid_size(view, level, tile_size)
    /\ UNCHANGED <<tq2, tr2>>

\* a call of TileService.calculate_tile_grid
CallTileGrid ==
    /\ tq = NoReq
    /\ \E specimen \in {"RM009", "RM000"}, view \in ViewTypes, level \in 0..1 :
        /\ tq' = [api |-> "tile_grid", specimen |-> specimen, view |-> view, level |-> level]
        /\ tr' = calculate_tile_grid(specimen, view, level)
    /\ UNCHANGED <<tq2, tr2>>

TileOnly == UNCHANGED <<readerVars, decompVars>>

NextTile ==
    \/ CallGetTile /\ TileOnly
    \/ CallReadTile /\ TileOnly
    \/ FetchData /\ TileOnly
    \/ FetchAdjacent /\ TileOnly
    \/ CallImageTile /\ TileOnly
    \/ CallAtlasTile /\ TileOnly
    \/ CallGridSize /\ TileOnly
    \/ CallTileGrid /\ TileOnly

SpecTile == InitTile /\ [][NextTile]_vars

\* ':'.join(fields)
RECURSIVE Join(_)
Join(fields) ==
    IF Len(fields) = 1 THEN fields[1]
    ELSE fields[1] \o <<":">> \o Join(Tail(fields))

\* the image_type fields of the data ids parsed: a modality, a view and an
\* encoding part, each well formed or not
ImageTypeTexts ==
    { mod \o view \o enc :
        mod \in Range(ModTokens) \cup { <<"I", "M", "G">>, <<>> },
        view \in Range(ViewTokens) \cup { <<"x">>, <<"x", "y", "z">>, <<>> },
        enc \in { <<>>, <<"-", "r", "a", "w">>, <<"-", "p", "n", "g">>, <<"-", "j", "_", "2">>,
                  <<"-">>, <<"-", "r", "!">>, <<"r", "a", "w">>, <<"\n">>,
                  <<"-", "r", "a", "w", "\n">>, <<"-", "r", "a", "w", " ">> } }

\* the resolution_level and channel fields of the data ids parsed
NumberTexts ==
    { <<>>, <<"0">>, <<"1", "2">>, <<"-", "1">>, <<"+", "3">>, <<" ", "1", " ">>,
      <<"1", "_", "0">>, <<" ">>, <<"x">>, <<"1", ".", "0">>, <<"1", " ", "2">>, <<"_", "1">> }

\* the data ids parsed: five fields with every image_type or with every
\* pair of numbers, and ids of four and of six fields
IdTexts ==
    { Join(<<<<"R">>, it, <<"0">>, <<"0">>, <<"0", ",", "0", ",", "0">>>>) :
        it \in ImageTypeTexts }
    \cup { Join(<<<<"R">>, it, rl, ch, <<"0", ",", "0", ",", "0">>>>) :
             it \in { <<"i", "m", "g", "x", "y">>, <<"m", "s", "k", "3", "d">> },
             rl \in NumberTexts, ch \in NumberTexts }
    \cup { Join(<<<<"R">>, it, <<"0">>, <<"0">>>>) :
             it \in { <<"i", "m", "g", "x", "y">>, <<"x">> } }
    \cup { Join(<<<<"R">>, it, <<"0">>, <<"0">>, <<>>, <<"0">>>>) :
             it \in { <<"i", "m", "g", "x", "y">>, <<"x">> } }

\* a call of DataService.parse_data_id
ParseId ==
    /\ tq = NoReq
    /\ \E text \in IdTexts :
        /\ tq' = [api |-> "parse", text |-> text]
        /\ tr' = parse_data_id_text(text)
    /\ UNCHANGED <<tq2, tr2>>

NextParse == ParseId /\ TileOnly

SpecParse == InitTile /\ [][NextParse]_vars

---------------------------------------------------------------------------
(* Properties of tile extraction *)

\* the extent (z, y, x) of the tile a view asks for
GetTileExtent(view) ==
    CASE view = "coronal" -> <<1, TileSize, TileSize>>
      [] view = "sagittal" -> <<TileSize, TileSize, 1>>
      [] view = "horizontal" -> <<TileSize, 1, TileSize>>

DataExtent(view_type) ==
    CASE view_type = "xy" -> <<1, TileSize, TileSize>>
      [] view_type = "yz" -> <<TileSize, TileSize, 1>>
      [] view_type = "xz" -> <<TileSize, 1, TileSize>>
      [] view_type = "3d" -> <<TileSize, TileSize, TileSize>>

DataViews == {"xy", "yz", "xz", "3d"}

Inside(o, ext) == \A d \in 1..3 : 0 <= o[d] /\ o[d] + ext[d] <= VolShape[d]

\* the request is a /data request for a tile view with a three-part origin
TileRequest(q) ==
    q.api = "data" /\ q.id.view \in DataViews /\ Len(q.id.pos) = 3

\* C7: every extraction whose origin is negative in some dimension, or whose
\* tile reaches beyond the shape in some dimension, fails; and no
\* extraction returns an array with fewer elements than the tile extent.
C7_BoundsRejection ==
    /\ tq.api = "get_tile" =>
          /\ ~Inside(tq.zyx, GetTileExtent(tq.view)) => tr.kind = "error"
          /\ tr.kind = "array" => tr.arr.shape = <<TileSize, TileSize>>
    /\ (tq.api = "read_tile" /\ tq.view \in DataViews) =>
          /\ ~Inside(tq.zyx, DataExtent(tq.view)) => tr.kind = "error"
          /\ tr.kind = "array" => Prod(tr.arr.shape) = Prod(DataExtent(tq.view))
    /\ (TileRequest(tq) /\ ~Inside(tq.id.pos, DataExtent(tq.id.view))) => tr.status # 200

ColumnAxis(view_type) == IF view_type = "yz" THEN 2 ELSE 3

\* two successful img requests for a 2-D view, the second TileSize \div 2
\* further along the column axis, both tiles inside the volume
AdjacentPair ==
    /\ tq.api = "data" /\ tq2.api = "data"
    /\ tq.id.mod = "img" /\ tq.id.view \in {"xy", "yz", "xz"}
    /\ tq2.axis = ColumnAxis(tq.id.view)
    /\ Inside(tq.id.pos, DataExtent(tq.id.view))
    /\ Inside(tq2.id.pos, DataExtent(tq.id.view))
    /\ tr.status = 200 /\ tr2.status = 200

\* C9: for two image tiles of a 2-D view served by /data whose origins
\* differ by d = TileSize / 2 along the column axis of the view, both inside
\* the volume, the decoded tiles satisfy tile1[:, d:] = tile2[:, :T-d].
C9_AdjacentOverlap ==
    AdjacentPair =>
        LET d == TileSize \div 2
            img1 == frombuffer(tr.body, TileSize, TileSize)
            img2 == frombuffer(tr2.body, TileSize, TileSize)
        IN /\ img1.kind = "array" /\ img2.kind = "array"
           /\ \A i \in 0..(TileSize - 1), j \in 0..(TileSize - d - 1) :
                At2(img1.arr, i, j + d) = At2(img2.arr, i, j)

\* a yz tile at the origin and its neighbour along y were fetched, and the
\* overlapping column is not constant
C9_Witness ==
    /\ AdjacentPair
    /\ tq.id.view = "yz" /\ tq.id.pos = <<0, 0, 0>>
    /\ LET img2 == frombuffer(tr2.body, TileSize, TileSize)
       IN img2.kind = "array" /\ At2(img2.arr, 0, 0) # At2(img2.arr, 1, 0)

\* C10: every successful img request returns exactly 2 bytes for every
\* element of the fixed tile extent of its view: 2*rows*cols for a 2-D view
\* and 2*depth*rows*cols for 3d.
C10_ExactPayloadSize ==
    /\ (TileRequest(tq) /\ tq.id.mod = "img" /\ tr.status = 200) =>
          Len(tr.body) = 2 * Prod(DataExtent(tq.id.view))
    /\ (tq2.api = "data" /\ TileRequest(tq2) /\ tq2.id.mod = "img" /\ tr2.status = 200) =>
          Len(tr2.body) = 2 * Prod(DataExtent(tq2.id.view))

---------------------------------------------------------------------------
(* Background removal *)

\* min(max(v - 100, 0), 65500) in unbounded integers
ClampedBackground(v) ==
    IF v - 100 < 0 THEN 0 ELSE IF v - 100 > 65500 THEN 65500 ELSE v - 100

\* the stored pixels of the tile a successful img request returned
StoredTile(q) ==
    read_tile("img", q.id.view, q.id.pos, get_tile_size(q.id.specimen, "img", q.id.view).val)

\* C11: the body of every successful raw img response is the float16
\* encoding of min(max(v - 100, 0), 65500) of the stored pixels v, so that a
\* stored value v <= 100 is emitted as 0.
C11_BackgroundRemoval ==
    (TileRequest(tq) /\ tq.id.mod = "img" /\ tr.status = 200) =>
        LET px == StoredTile(tq).arr.data
        IN /\ Len(tr.body) = 2 * Len(px)
           /\ \A k \in DOMAIN px :
                 tr.body[2 * k - 1] + 256 * tr.body[2 * k]
                     = Fp16Bits(ClampedBackground(px[k]))

---------------------------------------------------------------------------
(* Concurrency of the caches *)

\* the thread is inside one of the critical sections that read or update
\* the index cache or the metadata cache
InCritical(t) == pc[t] \in {"clrL", "metaL", "idx1L", "idx2L"}

\* C12: while a clear_cache() call has emptied the index cache and not yet
\* the metadata cache, it holds the lock and no other thread is inside a
\* critical section on either cache: no reader observes the half-cleared
\* state.
C12_ClearAtomic ==
    \A t \in Threads :
        pc[t] = "clrL" =>
            /\ lock = t
            /\ cache = <<>>
            /\ \A u \in Threads \ {t} : ~InCritical(u)

\* clear_cache is half done (index cache emptied, metadata of level "0"
\* still cached) while a reader that has read an index table from disk
\* waits to insert it
C12_Witness ==
    /\ pc["t1"] = "clrL"
    /\ cache = <<>> /\ metaCache["0"] # NoMeta
    /\ pc["t2"] = "idx2" /\ op["t2"] = "read"

\* the thread's call holds the value _get_meta returned to it
HasMeta(t) == pc[t] \notin {"idle", "meta", "metaL"} /\ meta[t] # NoMeta

\* C13: between two clear_cache() calls get_zarr_group_meta completes
\* successfully at most once per level, however the _get_meta calls
\* interleave; every caller holds the value parsed from the level's
\* zarr.json, which is the value the metadata cache keeps unmodified.
C13_MetaParsedOnce ==
    /\ \A lv \in Levels :
          /\ parses[lv] <= 1
          /\ metaCache[lv] # NoMeta => metaCache[lv] = LevelMeta(lv)
    /\ \A t \in Threads : HasMeta(t) => meta[t] = LevelMeta(lvl[t])
    /\ \A t, u \in Threads :
          (HasMeta(t) /\ HasMeta(u) /\ lvl[t] = lvl[u]) => meta[t] = meta[u]

\* both threads have completed a call on level "0" with no clear_cache
\* between them: one parse, the same metadata in both hands
C13_Witness ==
    /\ \A t \in Threads : Done(t) /\ op[t] \in ReadOps /\ lvl[t] = "0" /\ HasMeta(t)
    /\ parses["0"] = 1
    /\ meta["t1"] = meta["t2"]

\* the number of entries of the index cache under a key
CountKey(c, key) == Cardinality({i \in DOMAIN c : c[i].key = key})

\* the thread's _get_index_array returns in this step from its second
\* critical section
LeavesInsert(t) == pc[t] = "idx2L" /\ pc'[t] # "idx2L"

\* the thread holds an index table _get_index_array gave it
HasIndex(t) == pc[t] \in {"idx2", "idx2L", "done"} /\ idx[t] # NoIdx

\* what holds of the index cache in every state
CacheKeysDistinct ==
    /\ \A i, j \in DOMAIN cache : cache[i].key = cache[j].key => i = j
    /\ \A t \in Threads :
          pc[t] = "idx2L" =>
              /\ CountKey(cache, CurKey(t)) = 1
              /\ Len(cache) <= maxItems + 1
              /\ Len(cache) > maxItems => cache[Len(cache)].key = CurKey(t)
    /\ \A t, u \in Threads :
          (HasIndex(t) /\ HasIndex(u) /\ CurKey(t) = CurKey(u)) => idx[t] = idx[u]

\* what holds of a step: only the end of an insertion removes an entry, one
\* entry, the oldest, and only from a cache above capacity
EvictsOwnOverflow ==
    /\ \A t \in Threads :
          LeavesInsert(t) =>
              /\ cache' = cache \/ cache' = Tail(cache)
              /\ cache' # cache => Len(cache) > maxItems
    /\ (\A t \in Threads : ~LeavesInsert(t) /\ pc[t] # "clr") =>
          Len(cache') >= Len(cache)

\* C14: in every interleaving of _get_index_array calls, a call removes at
\* most one entry and only when its own insertion raised the size above
\* capacity; the cache never holds two entries for a key, readers of the
\* same shard hold tables of identical content, and when a reader returns
\* from its insertion the cache holds exactly one entry for its key if the
\* capacity is at least 1, and no entry at all if the capacity is 0.
C14_ProtectedMutation ==
    /\ []CacheKeysDistinct
    /\ [][/\ EvictsOwnOverflow
          /\ \A t \in Threads :
                LeavesInsert(t) =>
                    LET k == CurKey(t)
                    IN IF maxItems >= 1 THEN CountKey(cache', k) = 1
                       ELSE cache' = <<>>]_vars

\* two readers missed on the same shard key and both read the index from
\* disk: the first has inserted its table and is about to return, the
\* second waits to insert a table of identical content
C14_Witness ==
    /\ pc["t1"] = "idx2L" /\ pc["t2"] = "idx2"
    /\ op["t1"] = "read" /\ op["t2"] = "read"
    /\ CurKey("t1") = CurKey("t2")
    /\ idx["t1"] = idx["t2"] /\ idx["t1"] # NoIdx
    /\ CountKey(cache, CurKey("t1")) = 1

\* the statement with exactly one entry for the key after every insertion,
\* whatever the capacity
C14_ExactlyOneEntry ==
    [][\A t \in Threads :
          LeavesInsert(t) => LET k == CurKey(t) IN CountKey(cache', k) = 1]_vars

---------------------------------------------------------------------------
(* A shard file that appears while the reader runs *)

\* the content of the chunk the file KeyLate holds, and the fill of level "1"
LateChunk == [shape |-> <<1, 1>>, dtype |-> "uint16", data |-> <<51>>]
LateFill == [shape |-> <<1, 1>>, dtype |-> "uint16", data |-> <<5>>]

\* the thread's call is read_chunk("1", LateCoor)
ReadsLate(t) == op[t] = "read" /\ lvl[t] = "1" /\ coor[t] = LateCoor

\* C15: once the shard file of a chunk has been created, every
\* read_chunk(level, c) that completes afterwards, on a reader instance that
\* earlier found the file absent and returned the fill value as on any
\* other, returns the decoded content of the chunk, not the fill value; the
\* index cache never holds an entry for a file that does not exist.
C15_EmptyThenPopulated ==
    /\ [](\A i \in DOMAIN cache : ShardExists(cache[i].key))
    /\ [][\A t \in Threads :
             (ReadsLate(t) /\ KeyLate \in created /\ pc[t] # "done" /\ pc'[t] = "done")
                 => res'[t] = [kind |-> "array", arr |-> LateChunk]]_vars

\* one call of the reader found the shard file absent and returned the fill
\* value; the file was created, and a later read_chunk of the same chunk on
\* the same reader has returned its content
C15_Witness ==
    /\ KeyLate \in created
    /\ Done("t2") /\ ReadsLate("t2")
    /\ res["t2"] = [kind |-> "array", arr |-> LateFill]
    /\ Done("t1") /\ ReadsLate("t1")
    /\ res["t1"] = [kind |-> "array", arr |-> LateChunk]
    /\ metaCache["1"] # NoMeta

---------------------------------------------------------------------------
(* Index entries of an existing shard *)

\* the thread's read_chunk has looked its chunk up in the index table of an
\* existing shard and has ended
Looked(t) ==
    /\ Done(t) /\ op[t] \in {"read", "raw"}
    /\ HasMeta(t) /\ idx[t] # NoIdx
    /\ ChunkOf(lvl[t], coor[t]) \in DOMAIN idx[t]

\* the index entry of the chunk the thread asked for
EntryOf(t) == idx[t][ChunkOf(lvl[t], coor[t])]

\* the call returned the fill-value array, or None in non-decode mode
ReturnedFill(t) ==
    IF op[t] = "read"
    THEN res[t] = [kind |-> "array", arr |-> FillArray(meta[t])]
    ELSE res[t] = [kind |-> "none"]

\* the bytes of the shard file the entry <<offset, length>> names, when
\* they lie inside the file
InFile(key, e) ==
    UINT64_MAX \notin {e[1], e[2]} /\ e[1] + e[2] <= Len(ShardFile(key).data)
BytesAt(key, e) ==
    [i \in 1..e[2] |-> ShardFile(key).data[e[1] + i]]

\* the bytes are one blosc frame that holds a chunk of the level
WholeFrame(raw, m) ==
    /\ Len(raw) >= 2 /\ raw[1] = BloscMagic
    /\ raw[2] = Len(raw) - 2 /\ raw[2] = Prod(m.chunk_sz)

\* the call returned the bytes of the entry: as they are in non-decode mode,
\* decoded and shaped as one chunk in decode mode
ReturnedChunk(t) ==
    LET raw == BytesAt(CurPath(t), EntryOf(t)) IN
    IF op[t] = "raw" THEN res[t] = [kind |-> "bytes", data |-> raw]
    ELSE /\ res[t].kind = "array"
         /\ res[t].arr.shape = meta[t].chunk_sz
         /\ res[t].arr.data = SubSeq(raw, 3, Len(raw))

Corrupt(t) ==
    LET e == EntryOf(t) IN
    /\ e # Absent
    /\ \/ ~InFile(CurPath(t), e)
       \/ op[t] = "read" /\ ~WholeFrame(BytesAt(CurPath(t), e), meta[t])

\* C17: a read_chunk whose index entry is not the absent marker and whose
\* bytes cannot be read or decoded into a full chunk ends with an error: it
\* returns neither a fill-value array nor other data.
C17_CorruptionRaises ==
    \A t \in Threads : (Looked(t) /\ Corrupt(t)) => res[t].kind = "error"

\* the same for the calls in decode mode alone
CorruptionRaisesWhenDecoding ==
    \A t \in Threads :
        (Looked(t) /\ Corrupt(t) /\ op[t] = "read") => res[t].kind = "error"

---------------------------------------------------------------------------
(* Levels the reader cannot serve *)

\* the chunk extent of the level does not divide its shard extent
NonDivisible(lv) ==
    \E i \in DOMAIN ZarrJson(lv).shard :
        ZarrJson(lv).shard[i] % ZarrJson(lv).chunk[i] # 0

\* C18: on a level whose shard extent is not a multiple of its chunk extent
\* in some dimension, every read_chunk and exists_chunk call ends with an
\* error, for every coordinate: none returns an array or a boolean.
C18_DivisibilityValidated ==
    \A t \in Threads :
        (Done(t) /\ op[t] \in ReadOps /\ NonDivisible(lvl[t])) => res[t].kind = "error"

\* the level names a chunk codec other than blosc, or index codecs other
\* than bytes followed by crc32c
UnsupportedCodec(lv) ==
    \/ ZarrJson(lv).chunk_codec # "blosc"
    \/ ZarrJson(lv).index_codecs # <<"bytes", "crc32c">>

\* the call ended in get_zarr_group_meta: nothing was stored for the level
\* and no index table was read for the call
FailedInMeta(t) ==
    /\ res[t].kind = "error"
    /\ meta[t] = NoMeta /\ idx[t] = NoIdx
    /\ metaCache[lvl[t]] = NoMeta
    /\ \A i \in DOMAIN cache : cache[i].key[1] # lvl[t]

\* C19: every read_chunk / exists_chunk call on a level with an unsupported
\* codec ends with the explicit unsupported-codec error
\* (NotImplementedError) before any shard byte is read, and no metadata
\* entry is stored for the level.
C19_UnsupportedCodec ==
    \A t \in Threads :
        (Done(t) /\ op[t] \in ReadOps /\ UnsupportedCodec(lvl[t])) =>
            /\ FailedInMeta(t)
            /\ res[t] = Raise("NotImplementedError")

\* the same with any error in place of the unsupported-codec error
UnsupportedCodecFails ==
    \A t \in Threads :
        (Done(t) /\ op[t] \in ReadOps /\ UnsupportedCodec(lvl[t])) => FailedInMeta(t)

---------------------------------------------------------------------------
(* View tokens *)

\* the view the token stands for
ViewOfToken(token) ==
    CASE token = "xy" -> "coronal"
      [] token = "yz" -> "sagittal"
      [] token = "xz" -> "horizontal"
      [] token = "3d" -> "volumetric"

\* C20: for every request whose view token is xy, yz, xz or 3d,
\* view_explain() returns the coronal, sagittal, horizontal and volumetric
\* view respectively, a defined value, so that the view check of
\* get_tile_bytes lets an img request with any of the four tokens pass:
\* get_tile_bytes does not end in the evaluation of the view.
C20_ViewTokenMapping ==
    (tq.api = "data" /\ tq.id.view \in {"xy", "yz", "xz", "3d"}) =>
        /\ view_explain(tq.id.view) =
              [kind |-> "value", val |-> Some(ViewOfToken(tq.id.view))]
        /\ tq.id.mod = "img" =>
              get_tile_bytes(parse_data_id(tq.id)) # Raise("AttributeError")

\* the same for the three tokens of the planar views
PlanarViewTokenMapping ==
    (tq.api = "data" /\ tq.id.view \in {"xy", "yz", "xz"}) =>
        /\ view_explain(tq.id.view) =
              [kind |-> "value", val |-> Some(ViewOfToken(tq.id.view))]
        /\ tq.id.mod = "img" =>
              get_tile_bytes(parse_data_id(tq.id)) # Raise("AttributeError")

---------------------------------------------------------------------------
(* The resolver and the extractor *)

\* C21: for every in-bounds request with a 2D view token, the array
\* DataService._read_tile extracts equals, element for element, the output
\* of ImarisHandler.get_tile for the mapped view at the same origin and
\* tile size.
C21_ResolverOrientation ==
    (/\ tq.api = "read_tile" /\ tq.view \in {"xy", "yz", "xz"}
     /\ Inside(tq.zyx, DataExtent(tq.view))) =>
        tr = get_tile(ViewOfToken(tq.view), 0, 0,
                      tq.zyx[1], tq.zyx[2], tq.zyx[3], TileSize)

---------------------------------------------------------------------------
(* The grammar of data ids *)

\* the fields of the text between the colons, by the positions of the colons
Colons(text) == {i \in DOMAIN text : text[i] = ":"}
Field(text, k) ==
    LET cs == Colons(text)
        start == IF k = 1 THEN 1
                 ELSE 1 + CHOOSE i \in cs : Cardinality({j \in cs : j < i}) = k - 2
        stop == IF k = Cardinality(cs) + 1 THEN Len(text)
                ELSE (CHOOSE i \in cs : Cardinality({j \in cs : j < i}) = k - 1) - 1
    IN SubSeq(text, start, stop)

\* a non-empty word over [A-Za-z0-9_]
IsWord(w) == w # <<>> /\ \A i \in DOMAIN w : w[i] \in WordChars

\* the text is {img|msk|meh}{view}[-encoding] with the given parts; one
\* newline may follow
IsImageType(text, mod, view, enc) ==
    LET core == mod \o view \o (IF enc = None THEN <<>> ELSE <<"-">> \o enc[1])
    IN /\ mod \in Range(ModTokens) /\ view \in Range(ViewTokens)
       /\ enc # None => IsWord(enc[1])
       /\ text = core \/ text = core \o <<"\n">>

\* the parts of an image_type text of the grammar
ImageTypeParts(text) ==
    { p \in [mod : Range(ModTokens), view : Range(ViewTokens),
             enc : {None} \cup { Some(SubSeq(text, i, j)) : i, j \in DOMAIN text }] :
        IsImageType(text, p.mod, p.view, p.enc) }

\* the text is a decimal integer literal as int() reads it
IsIntLiteral(text) ==
    \E lo, hi \in DOMAIN text :
        /\ \A i \in DOMAIN text : (i < lo \/ i > hi) => IsSpace(text[i])
        /\ LET first == IF text[lo] \in {"+", "-"} THEN lo + 1 ELSE lo IN
           /\ first <= hi
           /\ text[first] \in Range(Digits) /\ text[hi] \in Range(Digits)
           /\ \A i \in first..hi :
                 \/ text[i] \in Range(Digits)
                 \/ text[i] = "_" /\ text[i - 1] \in Range(Digits)

IsBlank(text) == \A i \in DOMAIN text : IsSpace(text[i])

\* the text is a data id parse_data_id accepts
WellFormedId(text) ==
    /\ Cardinality(Colons(text)) = 4
    /\ ImageTypeParts(Field(text, 2)) # {}
    /\ IsBlank(Field(text, 3)) \/ IsIntLiteral(Field(text, 3))
    /\ IsBlank(Field(text, 4)) \/ IsIntLiteral(Field(text, 4))

\* C22: parse_data_id rejects with ValueError every identifier that does
\* not consist of exactly five colon-separated fields, whose image_type is
\* not {img|msk|meh}{view}[-encoding] (one newline at its end is let
\* through), or whose resolution_level or channel is neither blank (empty or
\* white space) nor an integer literal of int(); on success it returns the
\* five parts, with the encoding defaulted per modality (img raw, msk png,
\* meh obj) and a blank level or channel as None.
C22_IdentifierGrammar ==
    tq.api = "parse" =>
        IF ~WellFormedId(tq.text) THEN tr = Raise("ValueError")
        ELSE /\ tr.kind = "value"
             /\ tr.val.specimen_id = Field(tq.text, 1)
             /\ tr.val.pos_index = Field(tq.text, 5)
             /\ \E p \in ImageTypeParts(Field(tq.text, 2)) :
                   /\ tr.val.modality = p.mod /\ tr.val.view_type = p.view
                   /\ tr.val.encoding =
                         IF p.enc # None THEN p.enc[1]
                         ELSE CASE p.mod = <<"i", "m", "g">> -> <<"r", "a", "w">>
                                [] p.mod = <<"m", "s", "k">> -> <<"p", "n", "g">>
                                [] p.mod = <<"m", "e", "h">> -> <<"o", "b", "j">>
             /\ tr.val.res_level = None <=> IsBlank(Field(tq.text, 3))
             /\ tr.val.channel = None <=> IsBlank(Field(tq.text, 4))

\* the id R:msk3d:12:0:0,0,0 is parsed with the view 3d and the default
\* encoding png
C22_Witness ==
    /\ tq.api = "parse"
    /\ Field(tq.text, 2) = <<"m", "s", "k", "3", "d">>
    /\ tr.kind = "value"
    /\ tr.val.view_type = <<"3", "d">> /\ tr.val.encoding = <<"p", "n", "g">>
    /\ tr.val.res_level = Some(12) /\ tr.val.channel = Some(0)

\* the statement with every non-empty level or channel that is not an
\* integer rejected, and every image_type outside the grammar
C22_StrictGrammar ==
    tq.api = "parse" =>
        LET strict ==
              /\ Cardinality(Colons(tq.text)) = 4
              /\ \E p \in ImageTypeParts(Field(tq.text, 2)) :
                    Field(tq.text, 2) =
                       p.mod \o p.view \o (IF p.enc = None THEN <<>> ELSE <<"-">> \o p.enc[1])
              /\ \A k \in {3, 4} :
                    Field(tq.text, k) = <<>> \/ IsIntLiteral(Field(tq.text, k))
        IN ~strict => tr = Raise("ValueError")

---------------------------------------------------------------------------
(* Requests without a level or a channel *)

\* C23: every img or msk request whose resolution_level field or channel
\* field is empty is rejected with ValueError, which the route answers
\* with 400.
C23_EmptyLevelChannelRejected ==
    (/\ tq.api = "data" /\ tq.id.mod \in {"img", "msk"}
     /\ tq.id.rl = None \/ tq.id.ch = None) =>
        /\ get_tile_bytes(parse_data_id(tq.id)) = Raise("ValueError")
        /\ tr.status = 400

\* the same for the requests with a planar view token and without a level,
\* and for the img requests with a planar view token and without a channel
EmptyLevelOrImgChannelRejected ==
    (/\ tq.api = "data" /\ tq.id.mod \in {"img", "msk"}
     /\ tq.id.view \in {"xy", "yz", "xz"}
     /\ tq.id.rl = None \/ (tq.id.ch = None /\ tq.id.mod = "img")) =>
        tr.status = 400

---------------------------------------------------------------------------
(* Single-letter view tokens *)

\* the multi-character token a single-letter view token stands for
LongToken(view) ==
    CASE view = "c" -> "xy" [] view = "s" -> "yz"
      [] view = "h" -> "xz" [] view = "3" -> "3d"
      [] OTHER -> view

\* C24: a request with a single-letter view token has the outcome (the
\* same bytes or the same error) of the request that differs only by the
\* corresponding multi-character token.
C24_LegacyTokenAlias ==
    (tq.api = "data" /\ tq.id.view \in {"c", "s", "h", "3"}) =>
        /\ get_tile_bytes(parse_data_id(tq.id))
             = get_tile_bytes(parse_data_id([tq.id EXCEPT !.view = LongToken(@)]))
        /\ tr = fetch_data_piece([tq.id EXCEPT !.view = LongToken(@)])

\* a request with a single-letter view token is rejected with ValueError
LegacyTokenRejected ==
    (tq.api = "data" /\ tq.id.view \in {"c", "s", "h", "3"}) => tr.status = 400

---------------------------------------------------------------------------
(* validate *)

\* the listings of the stores validate is run on: with an entry that is not
\* a directory, with the damaged shard of level "5" first or in the middle,
\* and with a level whose zarr.json the reader cannot parse
SweepStores ==
    { <<"README", "5", "6", "0">>, <<"1", "5">>, <<"0", "2", "5">>, <<"5", "3", "1">> }

SweepInit == ReaderFields /\ dirs \in SweepStores /\ DecompIdle /\ TileIdle

\* one caller that validates in both modes and clears the caches
NextSweep ==
    \/ \E o \in ValidateOps : CallValidate("t1", o) /\ ReaderOnly
    \/ CallClear("t1") /\ ReaderOnly
    \/ Step("t1")

\* validate runs in one thread, which goes on as long as it can
SpecSweep == SweepInit /\ [][NextSweep]_vars /\ WF_vars(Step("t1"))

\* a validate(mode='full_read') call is under way, and it has ended
InSweep == op["t1"] = "validate" /\ pc["t1"] # "idle"
SweepEnded == InSweep /\ Done("t1")

\* the metadata of every level directory of the store parses
StoreParses ==
    \A i \in DOMAIN dirs : is_dir(dirs[i]) => "err" \notin DOMAIN LevelMeta(dirs[i])

\* the place of a walked shard in the iteration: the position of its level
\* in the listing and of its index in the shard grid of the level
LevelRank(e) == CHOOSE i \in DOMAIN dirs : dirs[i] = e.lv
ShardRank(e) ==
    CHOOSE j \in DOMAIN ShardGrid(LevelMeta(e.lv)) : ShardGrid(LevelMeta(e.lv))[j] = e.s_idx

\* every existing shard file of every level directory was walked, once and
\* in iteration order
SweptAllShards ==
    LET log == swept["t1"] IN
    /\ \A i \in DOMAIN dirs : is_dir(dirs[i]) =>
          \A s \in Range(ShardGrid(LevelMeta(dirs[i]))) :
             ShardExists(shard_path(dirs[i], s)) =>
                \E k \in DOMAIN log : log[k].lv = dirs[i] /\ log[k].s_idx = s
    /\ \A k, l \in DOMAIN log : k < l =>
          \/ LevelRank(log[k]) < LevelRank(log[l])
          \/ LevelRank(log[k]) = LevelRank(log[l]) /\ ShardRank(log[k]) < ShardRank(log[l])

\* of every walked shard every chunk whose index entry is not the absent
\* marker was visited, once and in index order; a chunk whose bytes are not
\* one whole frame inside the file was reported, the others were read
SweptAllChunks ==
    \A k \in DOMAIN swept["t1"] :
        LET e == swept["t1"][k]
            key == shard_path(e.lv, e.s_idx)
            tab == read_index_array(LevelMeta(e.lv), key)
        IN /\ \A c \in DOMAIN tab : tab[c] # Absent =>
                 \E j \in DOMAIN e.chunks : e.chunks[j].c_idx = c
           /\ \A i, j \in DOMAIN e.chunks : i < j =>
                 e.chunks[i].c_idx[Len(e.chunks[i].c_idx)] < e.chunks[j].c_idx[Len(e.chunks[j].c_idx)]
           /\ \A j \in DOMAIN e.chunks :
                 LET c == e.chunks[j].c_idx IN
                 /\ c \in DOMAIN tab /\ tab[c] # Absent
                 /\ e.chunks[j].out =
                       IF /\ InFile(key, tab[c])
                          /\ WholeFrame(BytesAt(key, tab[c]), LevelMeta(e.lv))
                       THEN "read" ELSE "error"

---------------------------------------------------------------------------
(* exists_chunk and read_chunk(b_decode=False) *)

\* one caller that asks for the existence and for the raw bytes of chunks:
\* of level "1" (an absent entry, a stored chunk, a missing shard file), of
\* level "5" (damaged index entries) and of level "6" (unaligned chunks),
\* and with a coordinate of the wrong rank
NextAgree ==
    \/ \E o \in {"exists", "raw"}, lv \in {"1", "5", "6"},
          c \in FaultCoords \cup { <<0>> } :
          CallRead("t1", o, lv, c) /\ ReaderOnly
    \/ CallClear("t1") /\ ReaderOnly
    \/ Step("t1")

SpecAgree == Init /\ [][NextAgree]_vars

\* what the store holds for the chunk at coordinate c of level lv: an
\* error of the lookup, "absent" (no shard file, or the absent marker) or
\* "present"
ChunkState(lv, c) ==
    LET m == LevelMeta(lv)
        path == shard_path(lv, ShardOf(lv, c))
        tab == read_index_array(m, path)
    IN IF ~RankOk(lv, c) THEN Raise("ValueError")
       ELSE IF ~Aligned(lv, c) THEN Raise("NotImplementedError")
       ELSE IF ~ShardExists(path) THEN [kind |-> "absent"]
       ELSE IF ChunkOf(lv, c) \notin DOMAIN tab THEN Raise("IndexError")
       ELSE IF tab[ChunkOf(lv, c)] = Absent THEN [kind |-> "absent"]
       ELSE [kind |-> "present", entry |-> tab[ChunkOf(lv, c)]]

\* the index entry has the all-ones word in one of its two fields
HalfMarker(e) == e # Absent /\ UINT64_MAX \in {e[1], e[2]}

\* a call that reached the index table leaves the table of its shard as
\* the most recently used entry of the cache, if the cache holds any
MostRecent(t) ==
    IF maxItems = 0 THEN cache = <<>>
    ELSE /\ cache # <<>>
         /\ cache[Len(cache)].key = CurKey(t)
         /\ cache[Len(cache)].val = read_index_array(LevelMeta(lvl[t]), CurPath(t))

\* C26: exists_chunk(level, c) and read_chunk(level, c, b_decode=False)
\* raise the same error for a rank mismatch, a non-zero residual and a
\* chunk index outside the table; otherwise exists_chunk returns True
\* exactly when read_chunk does not return None, which is when the shard
\* file exists and the index entry is not the absent marker: read_chunk then
\* returns the bytes of the entry or, for an entry with the all-ones word
\* in one field, raises the error of seek or read.  Either call leaves the
\* index table of its shard as the most recently used cache entry.
C26_ExistsAgreesWithRead ==
    \A t \in Threads :
        (Done(t) /\ op[t] \in {"exists", "raw"}) =>
            LET s == ChunkState(lvl[t], coor[t]) IN
            /\ s.kind = "error" => res[t] = s
            /\ s.kind = "absent" =>
                  res[t] = IF op[t] = "exists" THEN [kind |-> "bool", val |-> FALSE]
                           ELSE [kind |-> "none"]
            /\ s.kind = "present" =>
                  /\ op[t] = "exists" => res[t] = [kind |-> "bool", val |-> TRUE]
                  /\ op[t] = "raw" =>
                        IF HalfMarker(s.entry)
                        THEN res[t] \in {Raise("ValueError"), Raise("OverflowError")}
                        ELSE res[t].kind = "bytes"
                  /\ MostRecent(t)
            /\ (s.kind = "absent" /\ ShardExists(CurPath(t))) => MostRecent(t)

\* a raw read of a stored chunk has returned its bytes from a cache that
\* holds the table of the shard
C26_Witness ==
    /\ Done("t1") /\ op["t1"] = "raw" /\ lvl["t1"] = "1"
    /\ ChunkState("1", coor["t1"]).kind = "present"
    /\ res["t1"] = [kind |-> "bytes", data |-> Frame(<<41>>)]
    /\ maxItems = 1 /\ MostRecent("t1")

\* the statement with chunk bytes returned whenever exists_chunk returns True
C26_ExistsIffBytes ==
    \A t \in Threads :
        (Done(t) /\ op[t] = "raw") =>
            LET s == ChunkState(lvl[t], coor[t]) IN
            /\ s.kind = "error" => res[t] = s
            /\ s.kind = "absent" => res[t] = [kind |-> "none"]
            /\ s.kind = "present" => res[t].kind = "bytes"

---------------------------------------------------------------------------
(* Termination of the calls and the reader lock *)

\* two callers on a level that is served ("1"), a level whose metadata does
\* not parse ("2") and a level whose shard file is too short for its index
\* table ("7")
NextFair ==
    \/ \E t \in Threads, o \in ConcOps, lv \in {"1", "2", "7"} :
          CallRead(t, o, lv, <<0, 0>>) /\ ReaderOnly
    \/ \E t \in Threads : CallClear(t) /\ ReaderOnly
    \/ \E t \in Threads : Step(t)

\* a thread that can take a step again and again takes it at last: it is
\* scheduled, and it gets the lock when the lock is released again and again
SpecFair ==
    Init /\ [][NextFair]_vars /\ \A t \in Threads : SF_vars(Step(t))

InCall(t) == pc[t] \notin {"idle", "done"}

---------------------------------------------------------------------------
(* clear_cache and the tables read before it *)

\* C28: once clear_cache() has returned, the index cache does not receive
\* an index table that was read from disk before that clear_cache() call
\* started: no thread has inserted, and holds in the cache under the lock,
\* a table it read before a clear_cache() call that has returned since.
C28_ClearDropsEarlierTables ==
    \A t \in Threads :
        (pc[t] = "idx2L" /\ InCache(CurKey(t))) => "returned" \notin mark[t]

---------------------------------------------------------------------------
(* Image tiles, atlas tiles and the tile grid *)

Voxels == (0..(VolShape[1] - 1)) \X (0..(VolShape[2] - 1)) \X (0..(VolShape[3] - 1))

\* the image tile and the atlas tile of one request, both extracted
BothTiles ==
    /\ tq.api = "image_tile" /\ tq2.api = "atlas_tile"
    /\ tr.kind = "bytes" /\ tr2.kind = "bytes"

\* C29: for the same view, level, origin and tile size the arrays that
\* extract_image_tile and extract_atlas_tile hand to the encoder have the
\* same shape, and every pixel (row, col) of them comes from the same voxel:
\* the image pixel holds the image value of the voxel whose label the atlas
\* pixel holds (the image values of the voxels are all different).
C29_PixelAligned ==
    BothTiles =>
        /\ tr.image.shape = tr2.image.shape
        /\ \A k \in DOMAIN tr.image.data : \A v \in Voxels :
              tr.image.data[k] = ImgAt(v[1], v[2], v[3])
                  => tr2.image.data[k] = MskAt(v[1], v[2], v[3])

\* the same with the rows of the image tile in reverse order
PixelAlignedUpToRowFlip ==
    BothTiles =>
        /\ tr.image.shape = tr2.image.shape
        /\ \A k \in DOMAIN tr.image.data : \A v \in Voxels :
              FlipRows(tr.image).data[k] = ImgAt(v[1], v[2], v[3])
                  => tr2.image.data[k] = MskAt(v[1], v[2], v[3])

\* the extent of the whole plane of a view as get_tile lays it out: the
\* shape of the tile at the origin with a tile size no smaller than the volume
PlaneShape(view) ==
    get_tile(view, 0, 0, 0, 0, 0, VolShape[1] + VolShape[2] + VolShape[3]).arr.shape

\* C30: calculate_tile_grid_size returns tiles_x = ceil(W/T) and tiles_y =
\* ceil(H/T), with H and W the extents of the dataset along the axes that
\* get_tile uses for the rows and the columns of the view's tile.
C30_GridMatchesPlane ==
    (tq.api = "grid_size" /\ tr.kind = "value") =>
        /\ tr.val.tiles_x = CeilDiv(PlaneShape(tq.view)[2], tq.tile_size)
        /\ tr.val.tiles_y = CeilDiv(PlaneShape(tq.view)[1], tq.tile_size)

\* calculate_tile_grid_size returns the ceilings of the extents it reads
\* from the shape: (z, y) for sagittal, (z, x) for coronal, (y, x) for
\* horizontal
GridOfShapeAxes ==
    (tq.api = "grid_size" /\ tr.kind = "value") =>
        LET hw == CASE tq.view = "sagittal" -> <<VolShape[1], VolShape[2]>>
                    [] tq.view = "coronal" -> <<VolShape[1], VolShape[3]>>
                    [] tq.view = "horizontal" -> <<VolShape[2], VolShape[3]>>
        IN /\ tr.val.tiles_x = CeilDiv(hw[2], tq.tile_size)
           /\ tr.val.tiles_y = CeilDiv(hw[1], tq.tile_size)

====
